---- MODULE Spec2Model ----
(***************************************************************************)
(* PersonalFinanceTracker: the HTTP API (server/routes.ts), the data       *)
(* access layer (server/storage.ts), the shared schemas (shared/schema.ts) *)
(* and the goal card's add-funds action (client goal-card.tsx).            *)
(*                                                                         *)
(* Money is counted in hundredths: the JavaScript number 5.5 is the        *)
(* integer 550.  A text is a sequence of one-character strings, so that    *)
(* parseFloat, Number and String are computed and not assumed.             *)
(***************************************************************************)
EXTENDS Integers, Sequences, FiniteSets, TLC

(***************************************************************************)
(* Bounds of the model.                                                    *)
(***************************************************************************)
\* rows a table's serial id may hand out
MaxId == 2
\* the largest current amount, in hundredths, the add-funds form is used up to
MaxFunds == 1000
\* the longest list of expenses a page is rendered from
MaxList == 3

(***************************************************************************)
(* JavaScript values of a JSON body.                                       *)
(***************************************************************************)
Undefined == [t |-> "undefined"]
NaN == [t |-> "NaN"]
Num(n) == [t |-> "number", n |-> n]
Str(s) == [t |-> "string", s |-> s]

typeof(v) == IF v.t = "NaN" THEN "number" ELSE v.t

DigitChars == <<"0", "1", "2", "3", "4", "5", "6", "7", "8", "9">>
IsDigit(c) == \E d \in 1..10 : DigitChars[d] = c
DigitVal(c) == (CHOOSE d \in 1..10 : DigitChars[d] = c) - 1

RECURSIVE LeadingDigits(_)
LeadingDigits(s) ==
  IF s = <<>> \/ ~IsDigit(Head(s))
  THEN <<>>
  ELSE <<Head(s)>> \o LeadingDigits(Tail(s))

RECURSIVE DigitsValue(_)
DigitsValue(ds) ==
  IF ds = <<>>
  THEN 0
  ELSE DigitsValue(SubSeq(ds, 1, Len(ds) - 1)) * 10 + DigitVal(ds[Len(ds)])

Drop(s, k) == SubSeq(s, k + 1, Len(s))

\* the hundredths of a fraction's digits
FractionValue(fs) ==
  (IF Len(fs) >= 1 THEN DigitVal(fs[1]) * 10 ELSE 0)
  + (IF Len(fs) >= 2 THEN DigitVal(fs[2]) ELSE 0)

\* the longest numeric prefix of a text: sign, digits, "." and digits
NumericPrefix(s) ==
  LET neg == s # <<>> /\ Head(s) = "-"
      body == IF neg THEN Tail(s) ELSE s
      ip == LeadingDigits(body)
      afterInt == Drop(body, Len(ip))
      dot == afterInt # <<>> /\ Head(afterInt) = "."
      fp == IF dot THEN LeadingDigits(Tail(afterInt)) ELSE <<>>
      used == (IF neg THEN 1 ELSE 0) + Len(ip) + (IF dot THEN 1 + Len(fp) ELSE 0)
  IN [neg |-> neg, ip |-> ip, fp |-> fp, used |-> used,
      some |-> Len(ip) + Len(fp) > 0,
      value |-> (IF neg THEN -1 ELSE 1) * (DigitsValue(ip) * 100 + FractionValue(fp))]

\* parseFloat: the numeric prefix, whatever follows it; NaN when there is none
parseFloat(s) ==
  LET p == NumericPrefix(s)
  IN IF p.some THEN Num(p.value) ELSE NaN

\* Number(text): the whole text must be numeric; the empty text is 0
Number(s) ==
  LET p == NumericPrefix(s)
  IN IF s = <<>> THEN Num(0)
     ELSE IF p.some /\ p.used = Len(s) THEN Num(p.value)
     ELSE NaN

RECURSIVE NatText(_)
NatText(n) ==
  IF n < 10
  THEN <<DigitChars[n + 1]>>
  ELSE NatText(n \div 10) \o <<DigitChars[(n % 10) + 1]>>

\* String(number): the shortest decimal text
String(v) ==
  IF v.t = "NaN" THEN <<"N", "a", "N">>
  ELSE
    LET a == IF v.n < 0 THEN -v.n ELSE v.n
        f == a % 100
        frac == IF f = 0 THEN <<>>
                ELSE IF f % 10 = 0 THEN <<".", DigitChars[(f \div 10) + 1]>>
                ELSE <<".", DigitChars[(f \div 10) + 1], DigitChars[(f % 10) + 1]>>
    IN (IF v.n < 0 THEN <<"-">> ELSE <<>>) \o NatText(a \div 100) \o frac

\* what a numeric column accepts: the text of a decimal number
IsNumericText(s) ==
  LET p == NumericPrefix(s)
  IN p.some /\ p.used = Len(s) /\ Len(p.ip) > 0

\* the value of a stored numeric text, in hundredths
NumericValue(s) == NumericPrefix(s).value

(***************************************************************************)
(* shared/schema.ts                                                        *)
(***************************************************************************)
\* a date text "yyyy-mm-dd", known by its day
Date(d) == [t |-> "string", day |-> d]
\* a text whose characters are not computed with (a category, a status, a name)
Word(w) == [t |-> "string", w |-> w]

EXPENSE_CATEGORIES ==
  {"Food", "Transport", "Entertainment", "Shopping", "Health", "Bills", "Other"}
GOAL_STATUSES == {"in_progress", "on_track", "behind_schedule", "completed"}

\* z.number().min(0) in the place of min(0.01)
AmountNumberOkZero(v) == v.t = "number" /\ v.n >= 0

\* z.number().min(0.01)
AmountNumberOk(v) == v.t = "number" /\ v.n >= 1
\* z.string().refine(val => !isNaN(parseFloat(val)) && parseFloat(val) > 0)
AmountStringOk(v) ==
  /\ v.t = "string"
  /\ parseFloat(v.s).t = "number"
  /\ parseFloat(v.s).n > 0

\* insertExpenseSchema.parse: the fields that raise a ZodError issue
insertExpenseSchema(data) ==
  {f \in {"userId", "category", "date", "amount"} :
     \/ f = "userId" /\ data.userId.t \notin {"undefined", "number"}
     \/ f = "category" /\ data.category.t # "string"
     \/ f = "date" /\ data.date.t # "string"
     \/ f = "amount" /\ ~(AmountNumberOk(data.amount) \/ AmountStringOk(data.amount))}

\* insertGoalSchema.parse: the fields that raise a ZodError issue.  A numeric
\* column's insert schema is z.string(): a number is refused.
insertGoalSchema(data) ==
  {f \in {"userId", "name", "targetAmount", "currentAmount", "status"} :
     \/ f = "userId" /\ data.userId.t \notin {"undefined", "number"}
     \/ f = "name" /\ data.name.t # "string"
     \/ f = "targetAmount" /\ data.targetAmount.t # "string"
     \/ f = "currentAmount" /\ data.currentAmount.t \notin {"undefined", "string"}
     \/ f = "status" /\ data.status.t \notin {"undefined", "string"}}

(***************************************************************************)
(* State.                                                                  *)
(***************************************************************************)
VARIABLES
  table,          \* the table this behaviour's requests are about
  expenses,       \* the rows of table expenses
  nextExpenseId,  \* the serial of expenses.id
  goals,          \* the rows of table goals
  nextGoalId,     \* the serial of goals.id
  users,          \* the rows of table users
  reqs,           \* per slot, the request being served or last answered
  page            \* the browser's dashboard and insights pages

vars == <<table, expenses, nextExpenseId, goals, nextGoalId, users, reqs, page>>
store == <<expenses, nextExpenseId, goals, nextGoalId, users>>

\* the requests being served, or answered and not yet released
Slots == DOMAIN reqs
\* served one at a time, and two at a time
Serial == {1}
Concurrent == {1, 2}
Ids == 1..MaxId
UserIds == {1, 2}

\* req.isAuthenticated() and req.user?.id (0: no user object)
Sessions ==
  {[auth |-> FALSE, userId |-> 0], [auth |-> TRUE, userId |-> 0]}
  \cup {[auth |-> TRUE, userId |-> u] : u \in UserIds}

NoBody == [none |-> TRUE]

NoReq ==
  [route |-> "", session |-> [auth |-> FALSE, userId |-> 0], id |-> 0,
   body |-> NoBody, data |-> NoBody, from |-> NoBody, pc |-> "idle",
   steps |-> <<>>, dalCalls |-> 0, failed |-> FALSE, status |-> 0, out |-> {},
   errors |-> {}]

NewReq(route, sess, id, body) ==
  [NoReq EXCEPT !.route = route, !.session = sess, !.id = id, !.body = body,
                !.pc = "received"]

Free(s) == reqs[s].pc = "idle"

Respond(r, status, out, errors) ==
  [r EXCEPT !.pc = "done", !.status = status, !.out = out, !.errors = errors]

Step(r, name) == [r EXCEPT !.steps = Append(@, name)]
Dal(r) == [r EXCEPT !.dalCalls = @ + 1]

\* a catch block that makes the failed call once more before it answers
catchRetry(r) ==
  Respond([Dal(Dal(r)) EXCEPT !.failed = TRUE], 500, {}, {})

\* try { await storage... } catch (error) { res.status(500).json({ message }) }:
\* the call that r makes throws
catch(r) ==
  Respond([Dal(r) EXCEPT !.failed = TRUE], 500, {}, {})

\* a handler registered without the middleware and without the userId test
isAuthenticatedOpen(r) == TRUE

\* isAuthenticated, then `if (!userId) return 401`
isAuthenticated(r) == r.session.auth /\ r.session.userId # 0

\* a call of the data access layer comes back, or throws
DalOutcomes(r) == IF isAuthenticated(r) THEN BOOLEAN ELSE {TRUE}

(***************************************************************************)
(* server/storage.ts                                                       *)
(* Each operation takes the table's rows, db.                              *)
(***************************************************************************)
getExpenses(db, userId) == {e \in db : e.userId = userId}

\* the category filter without the owner filter
getExpensesByCategoryAll(db, userId, category) ==
  {e \in db : e.category = category}

getExpensesByCategory(db, userId, category) ==
  {e \in db : e.userId = userId /\ e.category = category}

getExpensesByDateRange(db, userId, startDay, endDay) ==
  {e \in db : e.userId = userId /\ e.date >= startDay /\ e.date <= endDay}

getExpenseById(db, id) == {e \in db : e.id = id}

\* the text a numeric column is handed for a value
NumericParam(v) == IF typeof(v) = "number" THEN String(v) ELSE v.s

\* createExpense: amount: String(insertExpense.amount), then insert ... returning
createExpense(id, data) ==
  [id |-> id, userId |-> data.userId.n,
   amount |-> NumericParam(data.amount),
   category |-> data.category.w, date |-> data.date.day]

\* update ... set(expenseData): the row after the update
setExpense(e, body) ==
  [id |-> e.id,
   userId |-> IF body.userId # Undefined THEN body.userId.n ELSE e.userId,
   amount |-> IF body.amount # Undefined THEN NumericParam(body.amount) ELSE e.amount,
   category |-> IF body.category # Undefined THEN body.category.w ELSE e.category,
   date |-> IF body.date # Undefined THEN body.date.day ELSE e.date]

\* the statement is refused: nothing to set, or a text that is no number
updateExpenseThrows(body) ==
  \/ \A f \in {"userId", "amount", "category", "date"} : body[f] = Undefined
  \/ body.amount # Undefined /\ ~IsNumericText(NumericParam(body.amount))

updateExpense(db, id, body) ==
  {IF e.id = id THEN setExpense(e, body) ELSE e : e \in db}

deleteExpense(db, id) == {e \in db : e.id # id}

\* updateUser: update ... set(userData) where id = id
setUser(u, body) ==
  [id |-> u.id,
   password |-> IF body.password # Undefined THEN body.password.w ELSE u.password,
   firstName |-> IF body.firstName # Undefined THEN body.firstName.w ELSE u.firstName]

updateUserThrows(body) == \A f \in {"password", "firstName"} : body[f] = Undefined

updateUser(db, id, body) ==
  {IF u.id = id THEN setUser(u, body) ELSE u : u \in db}

getUser(db, id) == {u \in db : u.id = id}

getGoals(db, userId) == {g \in db : g.userId = userId}

getGoalById(db, id) == {g \in db : g.id = id}

\* a JavaScript string is falsy when empty
Truthy(v) == v # Undefined /\ (v.t = "string" => v # Str(<<>>))

\* createGoal: targetAmount: String(..), currentAmount: .. ? String(..) : "0",
\* status: .. || "in_progress"
createGoal(id, data) ==
  [id |-> id, userId |-> data.userId.n, name |-> data.name.w,
   targetAmount |-> NumericParam(data.targetAmount),
   currentAmount |-> IF Truthy(data.currentAmount)
                     THEN NumericParam(data.currentAmount) ELSE <<"0">>,
   status |-> IF Truthy(data.status) THEN data.status.w ELSE "in_progress"]

\* the insert is refused: a text that is no number
createGoalThrows(data) ==
  \/ ~IsNumericText(NumericParam(data.targetAmount))
  \/ Truthy(data.currentAmount) /\ ~IsNumericText(NumericParam(data.currentAmount))

setGoal(g, body) ==
  [id |-> g.id,
   userId |-> IF body.userId # Undefined THEN body.userId.n ELSE g.userId,
   name |-> IF body.name # Undefined THEN body.name.w ELSE g.name,
   targetAmount |-> IF body.targetAmount # Undefined
                    THEN NumericParam(body.targetAmount) ELSE g.targetAmount,
   currentAmount |-> IF body.currentAmount # Undefined
                     THEN NumericParam(body.currentAmount) ELSE g.currentAmount,
   status |-> IF body.status # Undefined THEN body.status.w ELSE g.status]

updateGoalThrows(body) ==
  \/ \A f \in {"userId", "name", "targetAmount", "currentAmount", "status"} :
       body[f] = Undefined
  \/ body.targetAmount # Undefined /\ ~IsNumericText(NumericParam(body.targetAmount))
  \/ body.currentAmount # Undefined /\ ~IsNumericText(NumericParam(body.currentAmount))

updateGoal(db, id, body) ==
  {IF g.id = id THEN setGoal(g, body) ELSE g : g \in db}

deleteGoal(db, id) == {g \in db : g.id # id}

(***************************************************************************)
(* Request inputs.                                                         *)
(***************************************************************************)
Days == {1, 2}

ExpenseBody(amount, category, date) ==
  [amount |-> amount, category |-> category, date |-> date, userId |-> Undefined]

\* bodies of POST /api/expenses: three the schema accepts, one of them with
\* the userId of another user, and six it refuses
ExpensePostBodies ==
  { ExpenseBody(Num(500), Word("Food"), Date(1)),
    [ExpenseBody(Num(500), Word("Food"), Date(1)) EXCEPT !.userId = Num(2)],
    ExpenseBody(Str(<<"5", ".", "5", "0">>), Word("Crypto"), Date(2)),
    ExpenseBody(Num(-500), Word("Food"), Date(1)),
    ExpenseBody(Num(0), Word("Food"), Date(1)),
    ExpenseBody(Str(<<"a", "b", "c">>), Word("Food"), Date(1)),
    ExpenseBody(Undefined, Word("Food"), Date(1)),
    ExpenseBody(Num(500), Undefined, Date(1)),
    ExpenseBody(Num(500), Word("Food"), Undefined) }

\* bodies of PUT /api/expenses/:id
ExpensePutBodies ==
  { ExpenseBody(Num(-500), Undefined, Undefined),
    [ExpenseBody(Undefined, Word("Food"), Undefined) EXCEPT !.userId = Num(2)],
    ExpenseBody(Str(<<"a", "b", "c">>), Undefined, Undefined),
    ExpenseBody(Undefined, Undefined, Undefined) }

\* startDate and endDate: absent, a date text, or a text that is no date
DateRanges ==
  { <<Undefined, Date(1)>>, <<Date(1), Undefined>>, <<Date(1), Date(1)>>,
    <<Date(1), Date(2)>>, <<Date(2), Date(2)>>, <<Date(2), Date(1)>>,
    <<Word("soon"), Date(2)>> }

GoalBody(name, targetAmount, currentAmount, status) ==
  [name |-> name, targetAmount |-> targetAmount, currentAmount |-> currentAmount,
   status |-> status, userId |-> Undefined]

Ten == <<"1", "0">>

\* formSchema of the goal dialog: the target amount min(1) and
\* parseFloat(val) > 0, the current amount empty or parseFloat(val) >= 0
goalFormSchema(targetAmount, currentAmount) ==
  /\ Len(targetAmount) >= 1
  /\ parseFloat(targetAmount).t = "number"
  /\ parseFloat(targetAmount).n > 0
  /\ \/ currentAmount = <<>>
     \/ parseFloat(currentAmount).t = "number" /\ parseFloat(currentAmount).n >= 0

\* goalMutation.mutationFn: the payload, the amounts turned into numbers
goalPayload(name, targetAmount, currentAmount, status) ==
  GoalBody(Word(name), parseFloat(targetAmount),
           IF currentAmount # <<>> THEN parseFloat(currentAmount) ELSE Num(0),
           Word(status))

\* bodies of POST /api/goals; one is what the add-goal dialog sends for the
\* target amount 10 with the fields it starts with
GoalPostBodies ==
  { GoalBody(Word("Car"), Str(Ten), Undefined, Undefined),
    [GoalBody(Word("Car"), Str(Ten), Undefined, Undefined) EXCEPT !.userId = Num(2)],
    GoalBody(Word("Car"), Str(Ten), Str(<<"-", "5">>), Word("paused")),
    goalPayload("Car", Ten, <<"0">>, "in_progress"),
    GoalBody(Undefined, Str(Ten), Undefined, Undefined),
    GoalBody(Word("Car"), Str(<<"a", "b", "c">>), Undefined, Undefined) }

\* bodies of PUT /api/goals/:id that no form of the client sends
GoalPutBodies ==
  { GoalBody(Undefined, Undefined, Undefined, Word("completed")),
    [GoalBody(Word("Car"), Undefined, Undefined, Undefined) EXCEPT !.userId = Num(2)],
    GoalBody(Undefined, Undefined, Undefined, Undefined) }

\* bodies of PUT /api/user/profile
ProfileBodies ==
  { [firstName |-> Word("Ann"), password |-> Undefined],
    [firstName |-> Undefined, password |-> Word("letmein")],
    [firstName |-> Undefined, password |-> Undefined] }

\* what is typed into the add-funds form
FundTexts == { <<"5">>, <<"0">>, <<"a", "b", "c">>, <<>> }

(***************************************************************************)
(* server/routes.ts: expenses                                              *)
(***************************************************************************)
\* GET /api/expenses
GetExpenses(s) ==
  /\ table = "expenses"
  /\ Free(s)
  /\ \E sess \in Sessions :
       LET r == NewReq("GET /api/expenses", sess, 0, NoBody)
           a == Step(r, "authenticate")
       IN \E ok \in DalOutcomes(r) :
            reqs' = [reqs EXCEPT ![s] =
              IF ~isAuthenticated(r) THEN Respond(r, 401, {}, {})
              ELSE IF ~ok THEN catch(a)
              ELSE Respond(Dal(a), 200, getExpenses(expenses, sess.userId), {})]
  /\ UNCHANGED <<page, table, store>>

\* GET /api/expenses/category/:category
GetExpensesByCategory(s) ==
  /\ table = "expenses"
  /\ Free(s)
  /\ \E sess \in Sessions, category \in {"Food", "Crypto"} :
       LET r == [NewReq("GET /api/expenses/category/:category", sess, 0, NoBody)
                   EXCEPT !.data = [category |-> category]]
           a == Step(r, "authenticate")
       IN \E ok \in DalOutcomes(r) :
            reqs' = [reqs EXCEPT ![s] =
              IF ~isAuthenticated(r) THEN Respond(r, 401, {}, {})
              ELSE IF ~ok THEN catch(a)
              ELSE Respond(Dal(a), 200,
                           getExpensesByCategory(expenses, sess.userId, category), {})]
  /\ UNCHANGED <<page, table, store>>

\* `if (!startDate || !endDate)`
DateParamMissing(v) == v = Undefined
\* new Date(text).toISOString() throws a RangeError for a text that is no date
toISOStringThrows(v) == "day" \notin DOMAIN v

\* GET /api/expenses/dateRange
GetExpensesByDateRange(s) ==
  /\ table = "expenses"
  /\ Free(s)
  /\ \E sess \in Sessions, range \in DateRanges :
       LET startDate == range[1]
           endDate == range[2]
           r == [NewReq("GET /api/expenses/dateRange", sess, 0, NoBody)
                   EXCEPT !.data = [startDate |-> startDate, endDate |-> endDate]]
           a == Step(r, "authenticate")
           missing == DateParamMissing(startDate) \/ DateParamMissing(endDate)
       IN \E ok \in (IF missing THEN {TRUE} ELSE DalOutcomes(r)) :
            reqs' = [reqs EXCEPT ![s] =
              IF ~isAuthenticated(r) THEN Respond(r, 401, {}, {})
              ELSE IF missing THEN Respond(a, 400, {}, {})
              ELSE IF ~ok \/ toISOStringThrows(startDate) \/ toISOStringThrows(endDate)
                THEN catch(a)
              ELSE Respond(Dal(a), 200,
                           getExpensesByDateRange(expenses, sess.userId,
                                                  startDate.day, endDate.day), {})]
  /\ UNCHANGED <<page, table, store>>

\* requestData with the body spread after userId: a userId of the body wins
requestDataBodyLast(body, userId) ==
  [body EXCEPT !.userId = IF @ # Undefined THEN @ ELSE Num(userId),
               !.amount = IF typeof(@) = "string" THEN parseFloat(@.s) ELSE @]

\* requestData: the body, the session's userId, the amount parsed when a string
requestData(body, userId) ==
  [body EXCEPT !.userId = Num(userId),
               !.amount = IF typeof(@) = "string" THEN parseFloat(@.s) ELSE @]

\* POST /api/expenses
PostExpense(s) ==
  /\ table = "expenses"
  /\ Free(s)
  /\ \E sess \in Sessions, body \in ExpensePostBodies :
       LET r == NewReq("POST /api/expenses", sess, 0, body)
           data == requestData(body, sess.userId)
           v == [Step(Step(r, "authenticate"), "validate") EXCEPT !.data = data]
           errors == insertExpenseSchema(data)
           row == createExpense(nextExpenseId, data)
       IN IF ~isAuthenticated(r)
            THEN /\ reqs' = [reqs EXCEPT ![s] = Respond(r, 401, {}, {})]
                 /\ UNCHANGED <<expenses, nextExpenseId>>
          ELSE IF errors # {}
            THEN /\ reqs' = [reqs EXCEPT ![s] = Respond(v, 400, {}, errors)]
                 /\ UNCHANGED <<expenses, nextExpenseId>>
          ELSE \E ok \in BOOLEAN :
                 IF ~ok \/ nextExpenseId > MaxId
                   THEN /\ reqs' = [reqs EXCEPT ![s] = catch(v)]
                        /\ UNCHANGED <<expenses, nextExpenseId>>
                   ELSE /\ reqs' = [reqs EXCEPT ![s] =
                             Respond(Step(Dal(v), "apply"), 201, {row}, {})]
                        /\ expenses' = expenses \cup {row}
                        /\ nextExpenseId' = nextExpenseId + 1
  /\ UNCHANGED <<page, table, goals, nextGoalId, users>>

\* the check without the comparison of the owner
AuthorizeAnyOwner(r, found) ==
  IF found = {} THEN Respond(r, 404, {}, {})
  ELSE [Step(r, "authorize") EXCEPT !.pc = "write"]

\* the check without the test for a missing record
AuthorizeMissing(r, found) ==
  IF \E e \in found : e.userId # r.session.userId THEN Respond(r, 403, {}, {})
  ELSE [Step(r, "authorize") EXCEPT !.pc = "write"]

\* the check that answers a stranger as if the record were missing
AuthorizeHidden(r, found) ==
  IF found = {} \/ \E e \in found : e.userId # r.session.userId
  THEN Respond(r, 404, {}, {})
  ELSE [Step(r, "authorize") EXCEPT !.pc = "write"]

\* the ownership check on the loaded record: 404, 403 or go on to the write
Authorize(r, found) ==
  IF found = {} THEN Respond(r, 404, {}, {})
  ELSE IF \E e \in found : e.userId # r.session.userId THEN Respond(r, 403, {}, {})
  ELSE [Step(r, "authorize") EXCEPT !.pc = "write"]

\* PUT /api/expenses/:id, up to the ownership check
PutExpenseLoad(s) ==
  /\ table = "expenses"
  /\ Free(s)
  /\ \E sess \in Sessions, id \in Ids, body \in ExpensePutBodies :
       LET r == [NewReq("PUT /api/expenses/:id", sess, id, body) EXCEPT !.data = body]
           a == Step(r, "authenticate")
       IN \E ok \in DalOutcomes(r) :
            reqs' = [reqs EXCEPT ![s] =
              IF ~isAuthenticated(r) THEN Respond(r, 401, {}, {})
              ELSE IF ~ok THEN catch(a)
              ELSE Authorize(Dal(a), getExpenseById(expenses, id))]
  /\ UNCHANGED <<page, table, store>>

\* PUT /api/expenses/:id, the update and the answer
PutExpenseWrite(s) ==
  /\ reqs[s].pc = "write"
  /\ reqs[s].route = "PUT /api/expenses/:id"
  /\ \E ok \in BOOLEAN :
       LET r == reqs[s]
           db == updateExpense(expenses, r.id, r.data)
       IN IF ~ok \/ updateExpenseThrows(r.data)
            THEN /\ reqs' = [reqs EXCEPT ![s] = catch(r)]
                 /\ UNCHANGED expenses
            ELSE /\ reqs' = [reqs EXCEPT ![s] =
                      Respond(Step(Dal(r), "apply"), 200, getExpenseById(db, r.id), {})]
                 /\ expenses' = db
  /\ UNCHANGED <<page, table, nextExpenseId, goals, nextGoalId, users>>

\* DELETE /api/expenses/:id, up to the ownership check
DeleteExpenseLoad(s) ==
  /\ table = "expenses"
  /\ Free(s)
  /\ \E sess \in Sessions, id \in Ids :
       LET r == NewReq("DELETE /api/expenses/:id", sess, id, NoBody)
           a == Step(r, "authenticate")
       IN \E ok \in DalOutcomes(r) :
            reqs' = [reqs EXCEPT ![s] =
              IF ~isAuthenticated(r) THEN Respond(r, 401, {}, {})
              ELSE IF ~ok THEN catch(a)
              ELSE Authorize(Dal(a), getExpenseById(expenses, id))]
  /\ UNCHANGED <<page, table, store>>

\* DELETE /api/expenses/:id, the delete and the answer
DeleteExpenseWrite(s) ==
  /\ reqs[s].pc = "write"
  /\ reqs[s].route = "DELETE /api/expenses/:id"
  /\ \E ok \in BOOLEAN :
       LET r == reqs[s]
           result == getExpenseById(expenses, r.id) # {}
       IN IF ~ok \/ ~result
            THEN /\ reqs' = [reqs EXCEPT ![s] =
                      IF ~ok THEN catch(r) ELSE Respond(Dal(r), 500, {}, {})]
                 /\ UNCHANGED expenses
            ELSE /\ reqs' = [reqs EXCEPT ![s] =
                      Respond(Step(Dal(r), "apply"), 204, {}, {})]
                 /\ expenses' = deleteExpense(expenses, r.id)
  /\ UNCHANGED <<page, table, nextExpenseId, goals, nextGoalId, users>>

(***************************************************************************)
(* server/routes.ts: goals                                                 *)
(***************************************************************************)
\* GET /api/goals
GetGoals(s) ==
  /\ table = "goals"
  /\ Free(s)
  /\ \E sess \in Sessions :
       LET r == NewReq("GET /api/goals", sess, 0, NoBody)
           a == Step(r, "authenticate")
       IN \E ok \in DalOutcomes(r) :
            reqs' = [reqs EXCEPT ![s] =
              IF ~isAuthenticated(r) THEN Respond(r, 401, {}, {})
              ELSE IF ~ok THEN catch(a)
              ELSE Respond(Dal(a), 200, getGoals(goals, sess.userId), {})]
  /\ UNCHANGED <<page, table, store>>

\* POST /api/goals
PostGoal(s) ==
  /\ table = "goals"
  /\ Free(s)
  /\ \E sess \in Sessions, body \in GoalPostBodies :
       LET r == NewReq("POST /api/goals", sess, 0, body)
           data == [body EXCEPT !.userId = Num(sess.userId)]
           v == [Step(Step(r, "authenticate"), "validate") EXCEPT !.data = data]
           errors == insertGoalSchema(data)
           row == createGoal(nextGoalId, data)
       IN IF ~isAuthenticated(r)
            THEN /\ reqs' = [reqs EXCEPT ![s] = Respond(r, 401, {}, {})]
                 /\ UNCHANGED <<goals, nextGoalId>>
          ELSE IF errors # {}
            THEN /\ reqs' = [reqs EXCEPT ![s] = Respond(v, 400, {}, errors)]
                 /\ UNCHANGED <<goals, nextGoalId>>
          ELSE \E ok \in BOOLEAN :
                 IF ~ok \/ createGoalThrows(data) \/ nextGoalId > MaxId
                   THEN /\ reqs' = [reqs EXCEPT ![s] = catch(v)]
                        /\ UNCHANGED <<goals, nextGoalId>>
                   ELSE /\ reqs' = [reqs EXCEPT ![s] =
                             Respond(Step(Dal(v), "apply"), 201, {row}, {})]
                        /\ goals' = goals \cup {row}
                        /\ nextGoalId' = nextGoalId + 1
  /\ UNCHANGED <<page, table, expenses, nextExpenseId, users>>

\* PUT /api/goals/:id received with a body: up to the ownership check
PutGoalReceive(r) ==
  LET a == Step(r, "authenticate")
  IN {IF ~isAuthenticated(r) THEN Respond(r, 401, {}, {})
      ELSE IF ~ok THEN catch(a)
      ELSE Authorize(Dal(a), getGoalById(goals, r.id)) : ok \in DalOutcomes(r)}

\* PUT /api/goals/:id, up to the ownership check
PutGoalLoad(s) ==
  /\ table = "goals"
  /\ Free(s)
  /\ \E sess \in Sessions, id \in Ids, body \in GoalPutBodies :
       reqs' \in {[reqs EXCEPT ![s] = q] : q \in PutGoalReceive(
                    [NewReq("PUT /api/goals/:id", sess, id, body) EXCEPT !.data = body])}
  /\ UNCHANGED <<page, table, store>>

\* PUT /api/goals/:id, the update and the answer
PutGoalWrite(s) ==
  /\ reqs[s].pc = "write"
  /\ reqs[s].route = "PUT /api/goals/:id"
  /\ \E ok \in BOOLEAN :
       LET r == reqs[s]
           db == updateGoal(goals, r.id, r.data)
       IN IF ~ok \/ updateGoalThrows(r.data)
            THEN /\ reqs' = [reqs EXCEPT ![s] = catch(r)]
                 /\ UNCHANGED goals
            ELSE /\ reqs' = [reqs EXCEPT ![s] =
                      Respond(Step(Dal(r), "apply"), 200, getGoalById(db, r.id), {})]
                 /\ goals' = db
  /\ UNCHANGED <<page, table, expenses, nextExpenseId, nextGoalId, users>>

\* DELETE /api/goals/:id, up to the ownership check
DeleteGoalLoad(s) ==
  /\ table = "goals"
  /\ Free(s)
  /\ \E sess \in Sessions, id \in Ids :
       LET r == NewReq("DELETE /api/goals/:id", sess, id, NoBody)
           a == Step(r, "authenticate")
       IN \E ok \in DalOutcomes(r) :
            reqs' = [reqs EXCEPT ![s] =
              IF ~isAuthenticated(r) THEN Respond(r, 401, {}, {})
              ELSE IF ~ok THEN catch(a)
              ELSE Authorize(Dal(a), getGoalById(goals, id))]
  /\ UNCHANGED <<page, table, store>>

\* DELETE /api/goals/:id, the delete and the answer
DeleteGoalWrite(s) ==
  /\ reqs[s].pc = "write"
  /\ reqs[s].route = "DELETE /api/goals/:id"
  /\ \E ok \in BOOLEAN :
       LET r == reqs[s]
           result == getGoalById(goals, r.id) # {}
       IN IF ~ok \/ ~result
            THEN /\ reqs' = [reqs EXCEPT ![s] =
                      IF ~ok THEN catch(r) ELSE Respond(Dal(r), 500, {}, {})]
                 /\ UNCHANGED goals
            ELSE /\ reqs' = [reqs EXCEPT ![s] =
                      Respond(Step(Dal(r), "apply"), 204, {}, {})]
                 /\ goals' = deleteGoal(goals, r.id)
  /\ UNCHANGED <<page, table, expenses, nextExpenseId, nextGoalId, users>>

(***************************************************************************)
(* server/routes.ts: the profile                                           *)
(***************************************************************************)
\* PUT /api/user/profile
PutProfile(s) ==
  /\ table = "users"
  /\ Free(s)
  /\ \E sess \in Sessions, body \in ProfileBodies :
       LET r == [NewReq("PUT /api/user/profile", sess, 0, body) EXCEPT !.data = body]
           a == Step(r, "authenticate")
           db == updateUser(users, sess.userId, body)
       IN IF ~isAuthenticated(r)
            THEN /\ reqs' = [reqs EXCEPT ![s] = Respond(r, 401, {}, {})]
                 /\ UNCHANGED users
          ELSE \E ok \in BOOLEAN :
                 IF ~ok \/ updateUserThrows(body)
                   THEN /\ reqs' = [reqs EXCEPT ![s] = catch(a)]
                        /\ UNCHANGED users
                   ELSE /\ reqs' = [reqs EXCEPT ![s] =
                             Respond(Step(Dal(a), "apply"), 200,
                                     getUser(db, sess.userId), {})]
                        /\ users' = db
  /\ UNCHANGED <<page, table, expenses, nextExpenseId, goals, nextGoalId>>

(***************************************************************************)
(* client goal-card.tsx                                                    *)
(***************************************************************************)
\* addFundsSchema: min(1), !isNaN(parseFloat(val)) && parseFloat(val) > 0
addFundsSchema(amount) ==
  /\ Len(amount) >= 1
  /\ parseFloat(amount).t = "number"
  /\ parseFloat(amount).n > 0

\* a + b and a >= b of JavaScript numbers
Plus(a, b) == IF a.t = "NaN" \/ b.t = "NaN" THEN NaN ELSE Num(a.n + b.n)
Geq(a, b) == a.t = "number" /\ b.t = "number" /\ a.n >= b.n

\* the body with `>` in the place of `>=`
addFundsBodyStrict(goal, amount) ==
  LET newAmount == Plus(Number(goal.currentAmount), parseFloat(amount))
      newStatus == IF Geq(newAmount, Number(goal.targetAmount))
                      /\ newAmount # Number(goal.targetAmount)
                   THEN "completed" ELSE goal.status
  IN GoalBody(Undefined, Undefined, newAmount, Word(newStatus))

\* addFundsMutation.mutationFn: the body of the PUT
addFundsBody(goal, amount) ==
  LET newAmount == Plus(Number(goal.currentAmount), parseFloat(amount))
      newStatus == IF Geq(newAmount, Number(goal.targetAmount))
                   THEN "completed" ELSE goal.status
  IN GoalBody(Undefined, Undefined, newAmount, Word(newStatus))

\* the add-funds form of the card of a goal that slot c's GET /api/goals answered
AddFunds(s, c) ==
  /\ table = "goals"
  /\ Free(s) \/ s = c
  /\ reqs[c].pc = "done"
  /\ reqs[c].route = "GET /api/goals"
  /\ reqs[c].status = 200
  /\ \E goal \in reqs[c].out, amount \in FundTexts :
       /\ addFundsSchema(amount)
       /\ NumericValue(goal.currentAmount) + parseFloat(amount).n <= MaxFunds
       /\ LET body == addFundsBody(goal, amount)
              r == [NewReq("PUT /api/goals/:id", reqs[c].session, goal.id, body)
                      EXCEPT !.data = body,
                             !.from = [goal |-> goal, amount |-> amount]]
          IN reqs' \in {[reqs EXCEPT ![s] = q] : q \in PutGoalReceive(r)}
  /\ UNCHANGED <<page, table, store>>

\* what is typed as the target amount in the goal dialog
TargetTexts == { <<"5">>, <<"0">> }

\* the edit dialog of the card of a goal that slot c's GET /api/goals
\* answered, submitted with another target amount
EditGoal(s, c) ==
  /\ table = "goals"
  /\ Free(s) \/ s = c
  /\ reqs[c].pc = "done"
  /\ reqs[c].route = "GET /api/goals"
  /\ reqs[c].status = 200
  /\ \E goal \in reqs[c].out, targetAmount \in TargetTexts :
       /\ goalFormSchema(targetAmount, goal.currentAmount)
       /\ LET body == goalPayload(goal.name, targetAmount, goal.currentAmount,
                                  goal.status)
              r == [NewReq("PUT /api/goals/:id", reqs[c].session, goal.id, body)
                      EXCEPT !.data = body]
          IN reqs' \in {[reqs EXCEPT ![s] = q] : q \in PutGoalReceive(r)}
  /\ UNCHANGED <<page, table, store>>

\* the answer is sent: the request is over
Release(s) ==
  /\ reqs[s].pc = "done"
  /\ reqs' = [reqs EXCEPT ![s] = NoReq]
  /\ UNCHANGED <<page, table, store>>

(***************************************************************************)
(* The browser: the numbers and dates that the dashboard and insights      *)
(* components compute with.  Num(n) is the number n / 100; a quotient that *)
(* is no whole number of hundredths is kept as the fraction p / q.         *)
(***************************************************************************)
Infinity == [t |-> "Infinity"]
NegInfinity == [t |-> "-Infinity"]
Quot(p, q) == [t |-> "number", p |-> p, q |-> q]

RECURSIVE GCD(_, _)
GCD(a, b) == IF b = 0 THEN a ELSE GCD(b, a % b)

\* the number p / q, q > 0: in hundredths when it is a whole number of them
Canon(p, q) ==
  LET g == GCD(IF p < 0 THEN -p ELSE p, q)
      pr == p \div g
      qr == q \div g
  IN IF 100 % qr = 0 THEN Num(pr * (100 \div qr)) ELSE Quot(pr, qr)

\* a finite number as numerator and denominator
Numer(v) == IF "n" \in DOMAIN v THEN v.n ELSE v.p
Denom(v) == IF "n" \in DOMAIN v THEN 100 ELSE v.q

\* a / b
Div(a, b) ==
  IF a.t # "number" \/ b.t # "number" THEN NaN
  ELSE LET p == Numer(a) * Denom(b)
           q == Denom(a) * Numer(b)
       IN IF q = 0
            THEN (IF p = 0 THEN NaN ELSE IF p > 0 THEN Infinity ELSE NegInfinity)
          ELSE IF q > 0 THEN Canon(p, q)
          ELSE Canon(-p, -q)

\* a * 100
Times100(a) ==
  IF a.t # "number" THEN a ELSE Canon(Numer(a) * 100, Denom(a))

\* a - b of two finite numbers of hundredths, NaN when one is NaN
Minus(a, b) == IF a.t = "NaN" \/ b.t = "NaN" THEN NaN ELSE Num(a.n - b.n)

\* a > b
Gt(a, b) ==
  /\ a.t = "number"
  /\ b.t = "number"
  /\ Numer(a) * Denom(b) > Numer(b) * Denom(a)

\* Math.round: the nearest integer, a half goes up
MathRound(a) ==
  IF a.t # "number" THEN a
  ELSE Num(100 * ((2 * Numer(a) + Denom(a)) \div (2 * Denom(a))))

\* a number in a condition: 0 and NaN are falsy
TruthyNumber(a) == a.t # "NaN" /\ (a.t = "number" => Numer(a) # 0)

\* a day of the calendar; m is the month index, 0 for January
Day(y, m, d) == [y |-> y, m |-> m, d |-> d]

IsLeap(y) == (y % 4 = 0 /\ y % 100 # 0) \/ y % 400 = 0
DaysInMonth(y, m) ==
  IF m = 1 THEN (IF IsLeap(y) THEN 29 ELSE 28)
  ELSE IF m \in {3, 5, 8, 10} THEN 30
  ELSE 31

\* a day count outside the month runs into the months before or after it
RECURSIVE NormalDay(_, _, _)
NormalDay(y, m, d) ==
  IF d < 1
    THEN (IF m = 0 THEN NormalDay(y - 1, 11, d + 31)
          ELSE NormalDay(y, m - 1, d + DaysInMonth(y, m - 1)))
  ELSE IF d > DaysInMonth(y, m)
    THEN (IF m = 11 THEN NormalDay(y + 1, 0, d - 31)
          ELSE NormalDay(y, m + 1, d - DaysInMonth(y, m)))
  ELSE Day(y, m, d)

\* new Date(year, monthIndex, day): local midnight of the day, month and day
\* out of range carried over
NewDate(y, m, d) == NormalDay(y + (m \div 12), m % 12, d)

\* new Date("yyyy-mm-dd") is midnight UTC of the day; getFullYear, getMonth,
\* getDate and getDay read it in the browser's time zone: the day before when
\* the zone is behind UTC (tz = -1), the day itself otherwise (tz = 0)
LocalDate(date, tz) == NewDate(date.y, date.m, date.d + tz)

\* a >= b of two local days
DayGeq(a, b) ==
  \/ a.y > b.y
  \/ a.y = b.y /\ a.m > b.m
  \/ a.y = b.y /\ a.m = b.m /\ a.d >= b.d

\* the days from 1 January 2023, a Sunday, to the day
RECURSIVE DaysBefore(_, _)
DaysBefore(y, m) ==
  IF y = 2023 /\ m = 0 THEN 0
  ELSE IF m = 0 THEN DaysBefore(y - 1, 11) + 31
  ELSE DaysBefore(y, m - 1) + DaysInMonth(y, m - 1)

\* getDay: 0 for Sunday
getDay(day) == (DaysBefore(day.y, day.m) + day.d - 1) % 7

(***************************************************************************)
(* client insights-charts.tsx                                              *)
(***************************************************************************)
TimeFilters == {"1month", "3months", "6months", "1year", "all"}

\* monthsToShow
monthsToShow(timeFilter) ==
  CASE timeFilter = "1month" -> 1
    [] timeFilter = "3months" -> 3
    [] timeFilter = "6months" -> 6
    [] timeFilter = "1year" -> 12
    [] timeFilter = "all" -> 24

\* filteredExpenses: the expenses not older than the filter's day
filteredExpenses(list, today, tz, timeFilter) ==
  LET since ==
        CASE timeFilter = "1month" -> NewDate(today.y, today.m - 1, today.d)
          [] timeFilter = "3months" -> NewDate(today.y, today.m - 3, today.d)
          [] timeFilter = "6months" -> NewDate(today.y, today.m - 6, today.d)
          [] timeFilter = "1year" -> NewDate(today.y - 1, today.m, today.d)
          [] timeFilter = "all" -> today
      Keep(e) == timeFilter = "all" \/ DayGeq(LocalDate(e.date, tz), since)
  IN SelectSeq(list, Keep)

\* reduce((sum, expense) => sum + Number(expense.amount), 0)
RECURSIVE SumAmounts(_)
SumAmounts(list) ==
  IF list = <<>> THEN Num(0)
  ELSE Plus(SumAmounts(SubSeq(list, 1, Len(list) - 1)),
            Number(list[Len(list)].amount))

\* reduce((sum, value) => sum + value, 0)
RECURSIVE SumValues(_)
SumValues(data) ==
  IF data = <<>> THEN Num(0)
  ELSE Plus(SumValues(SubSeq(data, 1, Len(data) - 1)), data[Len(data)])

\* the place of a key among the entries of an object, 0 when it has none
KeyIndex(entries, key) ==
  IF \E i \in DOMAIN entries : entries[i].key = key
  THEN CHOOSE i \in DOMAIN entries : entries[i].key = key
  ELSE 0

\* `if (!totals[category]) totals[category] = 0`: a new key goes last
ZeroIfFalsy(entries, key) ==
  LET i == KeyIndex(entries, key)
  IN IF i = 0 THEN Append(entries, [key |-> key, value |-> Num(0)])
     ELSE IF TruthyNumber(entries[i].value) THEN entries
     ELSE [entries EXCEPT ![i].value = Num(0)]

\* an expense counted only when its category has no entry yet
categoryTotalsFirstOnly(list, acc) ==
  LET Step1(a, e) ==
        IF KeyIndex(a, e.category) # 0 THEN a
        ELSE Append(a, [key |-> e.category, value |-> Number(e.amount)])
      F[k \in 0..Len(list)] == IF k = 0 THEN acc ELSE Step1(F[k - 1], list[k])
  IN F[Len(list)]

\* the forEach of getCategoryData: the entries of categoryTotals
categoryTotals(list, acc) ==
  LET Step1(a, e) ==
        LET zeroed == ZeroIfFalsy(a, e.category)
        IN [zeroed EXCEPT ![KeyIndex(zeroed, e.category)].value =
                            Plus(@, Number(e.amount))]
      F[k \in 0..Len(list)] == IF k = 0 THEN acc ELSE Step1(F[k - 1], list[k])
  IN F[Len(list)]

\* sort((a, b) => b[1] - a[1]): descending, entries of equal value keep their
\* order
RECURSIVE InsertDescending(_, _)
InsertDescending(sorted, x) ==
  IF sorted = <<>> THEN <<x>>
  ELSE IF Gt(x.value, Head(sorted).value) THEN <<x>> \o sorted
  ELSE <<Head(sorted)>> \o InsertDescending(Tail(sorted), x)

RECURSIVE sortDescending(_)
sortDescending(entries) ==
  IF entries = <<>> THEN <<>>
  ELSE InsertDescending(sortDescending(SubSeq(entries, 1, Len(entries) - 1)),
                        entries[Len(entries)])

\* Math.round((value / total) * 100)
percentage(value, total) == MathRound(Times100(Div(value, total)))

\* getCategoryData of the insights charts
getCategoryData(list) ==
  LET sorted == sortDescending(categoryTotals(list, <<>>))
      data == [i \in 1..Len(sorted) |-> sorted[i].value]
      total == SumValues(data)
  IN [labels |-> [i \in 1..Len(sorted) |-> sorted[i].key],
      data |-> data,
      percentages |-> [i \in 1..Len(sorted) |-> percentage(data[i], total)],
      total |-> total]

\* the expenses of the list that getMonth and getFullYear put in d's month
InMonth(list, tz, d) ==
  LET Same(e) == /\ LocalDate(e.date, tz).m = d.m
                 /\ LocalDate(e.date, tz).y = d.y
  IN SelectSeq(list, Same)

\* the trend: for i = months - 1 down to 0, the month i months before today's
monthlyTotals(list, today, tz, months) ==
  [k \in 1..months |->
     SumAmounts(InMonth(list, tz, NewDate(today.y, today.m - (months - k), 1)))]

monthLabels(today, months) ==
  [k \in 1..months |->
     LET d == NewDate(today.y, today.m - (months - k), 1)
     IN [m |-> d.m, y |-> d.y]]

\* getMonthlyData of the insights charts
getMonthlyData(list, today, tz, timeFilter) ==
  LET months == monthsToShow(timeFilter)
      totals == monthlyTotals(list, today, tz, months)
      currentMonth == totals[months]
      previousMonth == totals[months - 1]
      compared == months >= 2 /\ Gt(previousMonth, Num(0))
      change == IF compared THEN Minus(currentMonth, previousMonth) ELSE Num(0)
  IN [labels |-> monthLabels(today, months),
      data |-> totals,
      change |-> change,
      changePercentage |->
        IF compared THEN percentage(change, previousMonth) ELSE Num(0)]

\* the scan for the highest of the weekday averages, from Sunday on
RECURSIVE highestFrom(_, _, _, _)
highestFrom(averages, i, highestDay, highestAvg) ==
  IF i > 6 THEN [highestDay |-> highestDay, highestAvg |-> highestAvg]
  ELSE IF Gt(averages[i], highestAvg)
    THEN highestFrom(averages, i + 1, i, averages[i])
  ELSE highestFrom(averages, i + 1, highestDay, highestAvg)

\* getWeekdayData
getWeekdayData(list, tz) ==
  LET OnDay(w) == LET Is(e) == getDay(LocalDate(e.date, tz)) = w
                  IN SelectSeq(list, Is)
      averages == [w \in 0..6 |->
                     IF Len(OnDay(w)) > 0
                     THEN Div(SumAmounts(OnDay(w)), Num(100 * Len(OnDay(w))))
                     ELSE Num(0)]
      highest == highestFrom(averages, 0, 0, Num(0))
  IN [data |-> averages,
      highestDay |-> highest.highestDay,
      highestAvg |-> highest.highestAvg]

(***************************************************************************)
(* client dashboard: spending-chart.tsx and summary-cards.tsx              *)
(***************************************************************************)
\* getMonthlyData of the spending chart: the last 6 months
spendingMonthlyData(list, today, tz) ==
  [labels |-> monthLabels(today, 6), data |-> monthlyTotals(list, today, tz, 6)]

\* getCategoryData of the spending chart
spendingCategoryData(list) ==
  LET sorted == sortDescending(categoryTotals(list, <<>>))
  IN [labels |-> [i \in 1..Len(sorted) |-> sorted[i].key],
      data |-> [i \in 1..Len(sorted) |-> sorted[i].value]]

\* acc[category] = (acc[category] || 0) + Number(expense.amount)
categorySpending(list) ==
  LET Step1(a, e) ==
        LET zeroed == ZeroIfFalsy(a, e.category)
        IN [zeroed EXCEPT ![KeyIndex(zeroed, e.category)].value =
                            Plus(@, Number(e.amount))]
      F[k \in 0..Len(list)] == IF k = 0 THEN <<>> ELSE Step1(F[k - 1], list[k])
  IN F[Len(list)]

\* the forEach over Object.entries(categorySpending)
RECURSIVE topFrom(_, _, _, _)
topFrom(entries, i, topCategory, topCategoryAmount) ==
  IF i > Len(entries)
    THEN [topCategory |-> topCategory, topCategoryAmount |-> topCategoryAmount]
  ELSE IF Gt(entries[i].value, topCategoryAmount)
    THEN topFrom(entries, i + 1, entries[i].key, entries[i].value)
  ELSE topFrom(entries, i + 1, topCategory, topCategoryAmount)

\* goals?.reduce((sum, goal) => sum + Number(goal[field]), 0) || 0
RECURSIVE SumGoals(_, _)
SumGoals(list, field) ==
  IF list = <<>> THEN Num(0)
  ELSE Plus(SumGoals(SubSeq(list, 1, Len(list) - 1), field),
            Number(list[Len(list)][field]))

goalsTotal(goalList, field) ==
  IF goalList = Undefined THEN Num(0)
  ELSE IF TruthyNumber(SumGoals(goalList.items, field))
    THEN SumGoals(goalList.items, field)
  ELSE Num(0)

\* spendingDifference without the test of lastMonthTotal
spendingDifferenceUnguarded(currentMonthTotal, lastMonthTotal) ==
  Times100(Div(Minus(currentMonthTotal, lastMonthTotal), lastMonthTotal))

\* lastMonthTotal ? ((currentMonthTotal - lastMonthTotal) / lastMonthTotal) * 100 : 0
spendingDifference(currentMonthTotal, lastMonthTotal) ==
  IF TruthyNumber(lastMonthTotal)
  THEN Times100(Div(Minus(currentMonthTotal, lastMonthTotal), lastMonthTotal))
  ELSE Num(0)

\* SummaryCards
SummaryCards(list, goalList, today, tz) ==
  LET lastMonthDate == NewDate(today.y, today.m - 1, 1)
      currentMonthExpenses == InMonth(list, tz, today)
      lastMonthExpenses == InMonth(list, tz, lastMonthDate)
      currentMonthTotal == SumAmounts(currentMonthExpenses)
      lastMonthTotal == SumAmounts(lastMonthExpenses)
      top == topFrom(categorySpending(currentMonthExpenses), 1, "", Num(0))
      totalGoalTargets == goalsTotal(goalList, "targetAmount")
      totalGoalSavings == goalsTotal(goalList, "currentAmount")
  IN [currentMonthTotal |-> currentMonthTotal,
      lastMonthTotal |-> lastMonthTotal,
      monthlySavings |-> totalGoalSavings,
      spendingDifference |-> spendingDifference(currentMonthTotal, lastMonthTotal),
      topCategory |-> top.topCategory,
      topCategoryAmount |-> top.topCategoryAmount,
      topCategoryPercentage |->
        IF TruthyNumber(currentMonthTotal)
        THEN percentage(top.topCategoryAmount, currentMonthTotal) ELSE Num(0),
      goalsProgress |->
        IF Gt(totalGoalTargets, Num(0))
        THEN percentage(totalGoalSavings, totalGoalTargets) ELSE Num(0)]

(***************************************************************************)
(* The pages: the dashboard (summary cards, spending chart) and the        *)
(* insights charts, rendered from the answers of GET /api/expenses and     *)
(* GET /api/goals.                                                         *)
(***************************************************************************)
\* what `new Date()` gives: the day the page is looked at
Todays == {Day(2024, 0, 15), Day(2024, 2, 31)}
\* the browser's zone: behind UTC (-1, the Americas) or not (0)
TimeZones == {-1, 0}

WeekdayNames ==
  <<"Sunday", "Monday", "Tuesday", "Wednesday", "Thursday", "Friday", "Saturday">>

PageExpense(amount, category, date) ==
  [amount |-> amount, category |-> category, date |-> date]

\* the rows that the fetched list is made of: dates on the first of a month,
\* in the month before and in the December before; an amount with cents; an
\* amount below 0, which PUT /api/expenses/:id stores
PageExpenses ==
  { PageExpense(<<"5", "0">>, "Food", Day(2024, 2, 1)),
    PageExpense(<<"3", "0">>, "Food", Day(2024, 2, 10)),
    PageExpense(<<"2", "0">>, "Transport", Day(2024, 2, 10)),
    PageExpense(<<"2", "0">>, "Transport", Day(2024, 1, 10)),
    PageExpense(<<"5", ".", "5">>, "Bills", Day(2024, 0, 10)),
    PageExpense(<<"3", "0">>, "Food", Day(2023, 11, 20)),
    PageExpense(<<"-", "2", "0">>, "Bills", Day(2024, 2, 10)) }

PageGoal(currentAmount, targetAmount) ==
  [currentAmount |-> currentAmount, targetAmount |-> targetAmount]

\* the data of the goals query once answered: an array of goals
Array(items) == [t |-> "array", items |-> items]

\* the goals that GET /api/goals answers: none, goals with a target above 0
\* (5 of 10; 1 of 8, which is 12.5 %), and goals with a target of 0 or below
\* 0, which POST and PUT /api/goals store
PageGoalLists ==
  { Array(<<>>),
    Array(<<PageGoal(<<"5">>, <<"1", "0">>)>>),
    Array(<<PageGoal(<<"5">>, <<"1", "0">>), PageGoal(<<"0">>, <<"2", "0">>)>>),
    Array(<<PageGoal(<<"1">>, <<"8">>)>>),
    Array(<<PageGoal(<<"5">>, <<"0">>)>>),
    Array(<<PageGoal(<<"5">>, <<"-", "1", "0">>)>>) }

\* GoalCard: the progress of one goal
GoalCardProgress(goal) ==
  percentage(Number(goal.currentAmount), Number(goal.targetAmount))

\* no page is open: the state of the server alone
NoPage == [open |-> FALSE]

\* InsightsCharts: `!isLoading ? get..Data() : { .. }`
InsightsCharts(list, isLoading, today, tz, timeFilter) ==
  LET filtered == filteredExpenses(list, today, tz, timeFilter)
      weekday == getWeekdayData(filtered, tz)
  IN [categoryData |->
        IF ~isLoading THEN getCategoryData(filtered)
        ELSE [labels |-> <<>>, data |-> <<>>, percentages |-> <<>>, total |-> Num(0)],
      monthlyData |->
        IF ~isLoading THEN getMonthlyData(filtered, today, tz, timeFilter)
        ELSE [labels |-> <<>>, data |-> <<>>, change |-> Num(0),
              changePercentage |-> Num(0)],
      weekdayData |->
        IF ~isLoading
        THEN [data |-> [w \in 1..7 |-> weekday.data[w - 1]],
              highestDay |-> WeekdayNames[weekday.highestDay + 1],
              highestAvg |-> weekday.highestAvg]
        ELSE [data |-> <<>>, highestDay |-> "", highestAvg |-> Num(0)]]

\* SpendingChart
SpendingChart(list, isLoading, today, tz) ==
  [monthlyData |->
     IF ~isLoading THEN spendingMonthlyData(list, today, tz)
     ELSE [labels |-> <<>>, data |-> <<>>],
   categoryData |->
     IF ~isLoading THEN spendingCategoryData(list)
     ELSE [labels |-> <<>>, data |-> <<>>]]

\* `weekdayData.highestAvg > 0 &&`: the card that names the highest weekday
showsHighestDay(weekdayData) == Gt(weekdayData.highestAvg, Num(0))

\* `categoryData.labels.length > 0 &&`: the card that names the top category
showsTopCategory(categoryData) == Len(categoryData.labels) > 0

\* `monthlyData.change !== 0 &&`: the card of the month-over-month change
showsChange(monthlyData) == monthlyData.change # Num(0)

\* `topCategory || 'No data'` of the summary cards
topCategoryText(summary) ==
  IF summary.topCategory = "" THEN "No data" ELSE summary.topCategory

\* the pages as first rendered: the queries are not answered yet
FirstPage(today, tz) ==
  [open |-> TRUE, isLoading |-> TRUE, expenses |-> <<>>, goals |-> Undefined,
   today |-> today, tz |-> tz, timeFilter |-> "3months"]

\* what a render shows: every aggregate is computed again from the queries'
\* data, `expenses || []` and `goals`
Summary == SummaryCards(page.expenses, page.goals, page.today, page.tz)
Spending == SpendingChart(page.expenses, page.isLoading, page.today, page.tz)
Insights ==
  InsightsCharts(page.expenses, page.isLoading, page.today, page.tz, page.timeFilter)

\* the first answer of GET /api/expenses: no expense yet
ExpensesLoaded ==
  /\ page.open
  /\ page.isLoading
  /\ page' = [page EXCEPT !.isLoading = FALSE]
  /\ UNCHANGED <<table, store, reqs>>

\* GET /api/expenses is fetched again after an expense is added
ExpenseFetched(e) ==
  /\ page.open
  /\ ~page.isLoading
  /\ page.goals \in {Undefined, Array(<<>>)}
  /\ Len(page.expenses) < MaxList
  /\ page' = [page EXCEPT !.expenses = Append(@, e)]
  /\ UNCHANGED <<table, store, reqs>>

\* the answer of GET /api/goals, asked once the expenses are there
GoalsFetched(goalList) ==
  /\ page.open
  /\ ~page.isLoading
  /\ page.expenses = <<>>
  /\ page.goals = Undefined
  /\ page' = [page EXCEPT !.goals = goalList]
  /\ UNCHANGED <<table, store, reqs>>

\* setTimeFilter
setTimeFilter(timeFilter) ==
  /\ page.open
  /\ timeFilter # page.timeFilter
  /\ page' = [page EXCEPT !.timeFilter = timeFilter]
  /\ UNCHANGED <<table, store, reqs>>

InitPage ==
  /\ table = "none"
  /\ expenses = {}
  /\ nextExpenseId = 1
  /\ goals = {}
  /\ nextGoalId = 1
  /\ users = {}
  /\ reqs = [s \in Serial |-> NoReq]
  /\ page \in {FirstPage(today, tz) : today \in Todays, tz \in TimeZones}

NextPage ==
  \/ ExpensesLoaded
  \/ \E e \in PageExpenses : ExpenseFetched(e)
  \/ \E goalList \in PageGoalLists : GoalsFetched(goalList)
  \/ \E timeFilter \in TimeFilters : setTimeFilter(timeFilter)

SpecPage == InitPage /\ [][NextPage]_vars

(***************************************************************************)
(* The specification.                                                      *)
(***************************************************************************)
\* No handler reads or writes both tables: a behaviour's requests are about
\* one of them.
Tables == {"expenses", "goals", "users"}

Init ==
  /\ table \in Tables
  /\ expenses = {}
  /\ nextExpenseId = 1
  /\ goals = {}
  /\ nextGoalId = 1
  /\ users = {[id |-> u, password |-> "hashed", firstName |-> "none"] : u \in UserIds}
  /\ reqs = [s \in Serial |-> NoReq]
  /\ page = NoPage

Next ==
  \E s \in Serial :
    \/ GetExpenses(s)
    \/ GetExpensesByCategory(s)
    \/ GetExpensesByDateRange(s)
    \/ PostExpense(s)
    \/ PutExpenseLoad(s)
    \/ PutExpenseWrite(s)
    \/ DeleteExpenseLoad(s)
    \/ DeleteExpenseWrite(s)
    \/ GetGoals(s)
    \/ PostGoal(s)
    \/ PutGoalLoad(s)
    \/ PutGoalWrite(s)
    \/ DeleteGoalLoad(s)
    \/ DeleteGoalWrite(s)
    \/ PutProfile(s)
    \/ \E c \in Serial : AddFunds(s, c)
    \/ Release(s)

Spec == Init /\ [][Next]_vars

(***************************************************************************)
(* Two requests in flight.  Node serves a handler up to its next await;    *)
(* between the load of a PUT or DELETE and its write, another request's    *)
(* step may run.  The requests are those of logged-in users, and of the    *)
(* storage calls only a statement the database refuses throws.             *)
(***************************************************************************)
Refused(r) ==
  \/ r.route = "PUT /api/expenses/:id" /\ updateExpenseThrows(r.data)
  \/ r.route = "PUT /api/goals/:id" /\ updateGoalThrows(r.data)

\* the step is one of the traffic looked at: slot 2 takes a request only
\* while slot 1 is busy, the payload passes validation, the request is about
\* the first record of the table, which is the only one created
Admitted(s) ==
  \/ reqs'[s] = NoReq
  \/ /\ reqs'[s].session.auth
     /\ reqs'[s].session.userId \in UserIds
     /\ reqs'[s].failed => (reqs[s].pc = "write" /\ Refused(reqs[s]))
     /\ reqs'[s].status # 400
     /\ reqs'[s].id \in {0, 1}
     /\ nextExpenseId' <= 2
     /\ nextGoalId' <= 2
     /\ (s = 2 /\ reqs[2].pc # "write") => reqs[1].pc # "idle"

InitConc ==
  /\ table \in {"expenses", "goals"}
  /\ expenses = {}
  /\ nextExpenseId = 1
  /\ goals = {}
  /\ nextGoalId = 1
  /\ users = {[id |-> u, password |-> "hashed", firstName |-> "none"] : u \in UserIds}
  /\ reqs = [s \in Concurrent |-> NoReq]
  /\ page = NoPage

NextConc ==
  \E s \in Concurrent :
    \/ PostExpense(s) /\ Admitted(s)
    \/ PutExpenseLoad(s) /\ Admitted(s)
    \/ PutExpenseWrite(s) /\ Admitted(s)
    \/ DeleteExpenseLoad(s) /\ Admitted(s)
    \/ DeleteExpenseWrite(s) /\ Admitted(s)
    \/ GetGoals(s) /\ Admitted(s)
    \/ PostGoal(s) /\ Admitted(s)
    \/ PutGoalLoad(s) /\ Admitted(s)
    \/ PutGoalWrite(s) /\ Admitted(s)
    \/ DeleteGoalLoad(s) /\ Admitted(s)
    \/ DeleteGoalWrite(s) /\ Admitted(s)
    \/ \E c \in Concurrent : AddFunds(s, c) /\ Admitted(s)
    \/ \E c \in Concurrent : EditGoal(s, c) /\ Admitted(s)
    \/ Release(s)

SpecConc == InitConc /\ [][NextConc]_vars

(***************************************************************************)
(* The claims.                                                             *)
(***************************************************************************)
ExpenseOwnedRoutes == {"PUT /api/expenses/:id", "DELETE /api/expenses/:id"}
GoalOwnedRoutes == {"PUT /api/goals/:id", "DELETE /api/goals/:id"}
OwnedRoutes == ExpenseOwnedRoutes \cup GoalOwnedRoutes

\* slot s takes a request in this step, and serves it up to its first wait
Received(s) == reqs[s].pc # "write" /\ reqs'[s].pc \in {"write", "done"}

\* the session of r is that of a logged-in user
LoggedIn(r) == r.session.auth /\ r.session.userId \in UserIds

\* the stored records with the id that r names
Target(r) ==
  IF r.route \in ExpenseOwnedRoutes
  THEN {e \in expenses : e.id = r.id}
  ELSE {g \in goals : g.id = r.id}

\* the load of r came back: r was not answered 500 after its one call
LoadCameBack(r) == ~(r.pc = "done" /\ r.status = 500 /\ r.dalCalls = 1)

\* C1: a PUT or DELETE of an expense or a goal by a logged-in user, whose load
\* returns a record owned by another user, is answered 403, and the step leaves
\* every table as it was; the request is over, so it writes nothing later.
C1_ForbiddenLeavesRecord ==
  [][\A s \in Slots :
       LET r == reqs'[s]
       IN (/\ Received(s)
           /\ r.route \in OwnedRoutes
           /\ LoggedIn(r)
           /\ LoadCameBack(r)
           /\ \E row \in Target(r) : row.userId # r.session.userId)
          => (r.pc = "done" /\ r.status = 403 /\ store' = store)]_vars

\* C1 witness: a PUT of an expense answered 403 while the record is stored and
\* owned by another user
C1_Witness ==
  \E s \in Slots :
    /\ reqs[s].pc = "done"
    /\ reqs[s].route = "PUT /api/expenses/:id"
    /\ reqs[s].status = 403
    /\ \E e \in expenses : e.id = reqs[s].id /\ e.userId # reqs[s].session.userId

\* C2: a request without an authenticated session is answered 401 at once,
\* has made no call of the data access layer, and leaves every table as it was.
C2_UnauthorizedNoAccess ==
  [][\A s \in Slots :
       (Received(s) /\ ~reqs'[s].session.auth)
       => (/\ reqs'[s].pc = "done"
           /\ reqs'[s].status = 401
           /\ reqs'[s].dalCalls = 0
           /\ store' = store)]_vars

\* C2 witness: a POST of a goal without a session, answered 401
C2_Witness ==
  \E s \in Slots :
    /\ reqs[s].pc = "done"
    /\ reqs[s].route = "POST /api/goals"
    /\ ~reqs[s].session.auth
    /\ reqs[s].status = 401

\* C3 as claimed: every create, update or delete that was applied went through
\* authenticate, validate (when it has a body), authorize (when it names a
\* record) and apply, in this order.
C3_ValidatedBeforeWrite ==
  \A s \in Slots :
    "apply" \in {reqs[s].steps[i] : i \in DOMAIN reqs[s].steps} =>
      reqs[s].steps =
        IF reqs[s].route \in {"POST /api/expenses", "POST /api/goals"}
          THEN <<"authenticate", "validate", "apply">>
        ELSE IF reqs[s].route \in {"PUT /api/expenses/:id", "PUT /api/goals/:id"}
          THEN <<"authenticate", "validate", "authorize", "apply">>
        ELSE IF reqs[s].route \in {"DELETE /api/expenses/:id", "DELETE /api/goals/:id"}
          THEN <<"authenticate", "authorize", "apply">>
        ELSE reqs[s].steps

\* the payloads of POST /api/expenses that C4 names: amount missing, not a
\* number, or not greater than 0; a required field missing
BadExpenseAmount(body) ==
  \/ body.amount = Undefined
  \/ body.amount.t = "number" /\ body.amount.n <= 0
  \/ body.amount.t = "string" /\ ~IsNumericText(body.amount.s)
  \/ body.amount.t = "string" /\ IsNumericText(body.amount.s)
       /\ NumericValue(body.amount.s) <= 0
BadExpensePayload(body) ==
  BadExpenseAmount(body) \/ body.category = Undefined \/ body.date = Undefined
\* the payloads of POST /api/goals with a required field missing
BadGoalPayload(body) == body.name = Undefined \/ body.targetAmount = Undefined

C5_LoadThenOneOutcome ==
  [][\A s \in Slots :
       LET r == reqs'[s]
       IN /\ (Received(s) /\ r.route \in OwnedRoutes /\ LoggedIn(r)) =>
               /\ r.dalCalls = 1
               /\ store' = store
               /\ IF ~LoadCameBack(r) THEN TRUE
                  ELSE IF Target(r) = {} THEN r.pc = "done" /\ r.status = 404
                  ELSE IF \E row \in Target(r) : row.userId # r.session.userId
                    THEN r.pc = "done" /\ r.status = 403
                  ELSE r.pc = "write"
          /\ (reqs[s].pc = "write") =>
               /\ r.pc = "done"
               /\ r.status \in {200, 204, 500}
               /\ r.status = 500 => store' = store
          /\ (r.route \in OwnedRoutes /\ r.pc # "idle" /\ store' # store) =>
               reqs[s].pc = "write"]_vars

\* C5 witness: a DELETE of a goal by its owner, applied and answered 204
C5_Witness ==
  \E s \in Slots :
    /\ reqs[s].pc = "done"
    /\ reqs[s].route = "DELETE /api/goals/:id"
    /\ reqs[s].status = 204
    /\ \A g \in goals : g.id # reqs[s].id

\* the answer to r's load when the table holds db
Answer(r, db) == Authorize(r, {row \in db : row.id = r.id}).status

\* C6: the answer tells a user who is not the owner whether the record exists.
\* A PUT or DELETE whose load came back and found no record of the session's
\* user is answered 403 exactly when a record with the id is stored, and 404
\* exactly when none is; and for every stored record the same request by
\* another user gets 403 with the record and 404 without it.
C6_ExistenceRevealed ==
  /\ \A s \in Slots :
       LET r == reqs[s]
       IN (/\ r.pc = "done"
           /\ r.route \in OwnedRoutes
           /\ LoggedIn(r)
           /\ LoadCameBack(r)
           /\ ~\E row \in Target(r) : row.userId = r.session.userId
           /\ r.status \in {403, 404})
          => /\ r.status = 403 <=> Target(r) # {}
             /\ r.status = 404 <=> Target(r) = {}
  /\ \A db \in {expenses, goals} : \A row \in db : \A a \in UserIds \ {row.userId} :
       \A route \in OwnedRoutes :
         LET r == NewReq(route, [auth |-> TRUE, userId |-> a], row.id, NoBody)
         IN Answer(r, db) = 403 /\ Answer(r, db \ {row}) = 404

\* C6 witness: a DELETE of an expense by a user who is not its owner is
\* answered 403 while the record is stored
C6_Witness ==
  \E s \in Slots :
    /\ reqs[s].pc = "done"
    /\ reqs[s].route = "DELETE /api/expenses/:id"
    /\ reqs[s].status = 403
    /\ \E e \in expenses : e.id = reqs[s].id /\ e.userId # reqs[s].session.userId

\* C7 as claimed: every stored expense has amount > 0 and a category of the
\* fixed set.
C7_ExpenseInvariant ==
  \A e \in expenses :
    NumericValue(e.amount) > 0 /\ e.category \in EXPENSE_CATEGORIES

\* C8 as claimed: every stored goal has targetAmount > 0, currentAmount >= 0
\* and a status of the fixed set.
C8_GoalInvariant ==
  \A g \in goals :
    /\ NumericValue(g.targetAmount) > 0
    /\ NumericValue(g.currentAmount) >= 0
    /\ g.status \in GOAL_STATUSES

C10_ReadsScopedToOwner ==
  \A s \in Slots :
    LET r == reqs[s]
        u == r.session.userId
    IN (r.pc = "done" /\ r.status = 200) =>
         /\ r.route = "GET /api/expenses" =>
              r.out = {e \in expenses : e.userId = u}
         /\ r.route = "GET /api/expenses/category/:category" =>
              r.out = {e \in expenses : e.userId = u /\ e.category = r.data.category}
         /\ r.route = "GET /api/expenses/dateRange" =>
              r.out = {e \in expenses : /\ e.userId = u
                                        /\ e.date >= r.data.startDate.day
                                        /\ e.date <= r.data.endDate.day}
         /\ r.route = "GET /api/goals" =>
              r.out = {g \in goals : g.userId = u}
         /\ r.route \in {"GET /api/expenses", "GET /api/expenses/category/:category",
                         "GET /api/expenses/dateRange"} =>
              \A e \in expenses :
                e.userId # u =>
                  /\ getExpenses(expenses \ {e}, u) = getExpenses(expenses, u)
                  /\ \A c \in {"Food", "Crypto"} :
                       getExpensesByCategory(expenses \ {e}, u, c)
                         = getExpensesByCategory(expenses, u, c)
                  /\ \A d1 \in Days, d2 \in Days :
                       getExpensesByDateRange(expenses \ {e}, u, d1, d2)
                         = getExpensesByDateRange(expenses, u, d1, d2)

\* C10 witness: a read by category answers one of two stored expenses of the
\* category, the other being another user's
C10_Witness ==
  \E s \in Slots :
    /\ reqs[s].pc = "done"
    /\ reqs[s].status = 200
    /\ reqs[s].route = "GET /api/expenses/category/:category"
    /\ reqs[s].out # {}
    /\ \E e \in expenses :
         e.userId # reqs[s].session.userId /\ e.category = reqs[s].data.category

\* the calls of the data access layer that slot s's request had made before
\* this step
CallsBefore(s) == IF reqs[s].pc = "write" THEN reqs[s].dalCalls ELSE 0

\* C11: when a call of the data access layer throws, the request is answered
\* 500 with nothing but a message, the call that threw was its last (it is
\* made once, and none follows), every table is as before the call, and the
\* answered request does nothing more.
C11_FailureIs500Once ==
  [][\A s \in Slots :
       LET r == reqs'[s]
       IN /\ (r.failed /\ r # reqs[s]) =>
               /\ r.pc = "done"
               /\ r.status = 500
               /\ r.out = {}
               /\ r.errors = {}
               /\ r.dalCalls = CallsBefore(s) + 1
               /\ store' = store
          /\ reqs[s].failed => r \in {reqs[s], NoReq}]_vars

\* C11 witness: a PUT of an expense whose load came back and whose update
\* threw: answered 500 after two calls, the record as it was
C11_Witness ==
  \E s \in Slots :
    /\ reqs[s].pc = "done"
    /\ reqs[s].route = "PUT /api/expenses/:id"
    /\ reqs[s].failed
    /\ reqs[s].status = 500
    /\ reqs[s].dalCalls = 2
    /\ \E e \in expenses : e.id = reqs[s].id /\ e.userId = reqs[s].session.userId

\* C12 as claimed: a GET /api/expenses/dateRange of a logged-in user with
\* startDate or endDate missing, or not the text of a date, is answered 400
\* without a call of the data access layer.
C12_BadDateRangeIs400 ==
  \A s \in Slots :
    LET r == reqs[s]
    IN (/\ r.pc = "done"
        /\ r.route = "GET /api/expenses/dateRange"
        /\ LoggedIn(r)
        /\ \E d \in {r.data.startDate, r.data.endDate} :
             DateParamMissing(d) \/ toISOStringThrows(d))
       => (r.status = 400 /\ r.dalCalls = 0)

\* the stored records with the id that r names, after the step
TargetAfter(r) ==
  IF r.route \in ExpenseOwnedRoutes \cup {"POST /api/expenses"}
  THEN {e \in expenses' : e.id = r.id}
  ELSE {g \in goals' : g.id = r.id}

\* C13 as claimed: with two requests in flight, a write step of a PUT or
\* DELETE that changes a table changes a record that, in the state the write
\* is made in, is stored and owned by the session's user.
C13_WriteOnOwnedRecord ==
  [][\A s \in Slots :
       (reqs[s].pc = "write" /\ reqs'[s] # reqs[s] /\ store' # store)
       => \E row \in Target(reqs[s]) : row.userId = reqs[s].session.userId]_vars

\* C14 as claimed: with two requests in flight, a POST answered 201 carries
\* the record it added, a PUT answered 200 carries the record with its id as
\* stored after the update, and a DELETE answered 204 removed a record that
\* was stored.
C14_SuccessReflectsMutation ==
  [][\A s \in Slots :
       LET r == reqs'[s]
       IN (r # reqs[s] /\ r.pc = "done") =>
            /\ (r.route \in {"POST /api/expenses", "POST /api/goals"}
                  /\ r.status = 201) =>
                 /\ r.out # {}
                 /\ r.out \subseteq (expenses' \cup goals')
                 /\ r.out \cap (expenses \cup goals) = {}
            /\ (r.route \in {"PUT /api/expenses/:id", "PUT /api/goals/:id"}
                  /\ r.status = 200) =>
                 /\ r.out # {}
                 /\ r.out = TargetAfter(r)
            /\ (r.route \in {"DELETE /api/expenses/:id", "DELETE /api/goals/:id"}
                  /\ r.status = 204) =>
                 /\ Target(reqs[s]) # {}
                 /\ TargetAfter(r) = {}]_vars
\* the expenses that the insights charts are computed from
Shown == filteredExpenses(page.expenses, page.today, page.tz, page.timeFilter)

IsInteger(v) == v.t = "number" /\ "n" \in DOMAIN v /\ v.n % 100 = 0

\* the percentages are integers that sum to a value within their number of 100
Near100(percentages) ==
  /\ \A i \in DOMAIN percentages : IsInteger(percentages[i])
  /\ SumValues(percentages).n >= 100 * (100 - Len(percentages))
  /\ SumValues(percentages).n <= 100 * (100 + Len(percentages))

\* C16 as claimed: for every list of expenses the integer percentages of the
\* category breakdown sum to a value within (number of categories present)
\* of 100.
C16_PercentagesNear100 ==
  (page.open /\ ~page.isLoading) => Near100(getCategoryData(Shown).percentages)

\* C16, the part that holds: when the amounts shown do not sum to 0, the
\* percentages are integers that sum to a value within (number of categories)
\* of 100.
C16_NonZeroTotalNear100 ==
  (page.open /\ ~page.isLoading /\ TruthyNumber(SumAmounts(Shown)))
    => Near100(getCategoryData(Shown).percentages)

\* C16: the percentages of Food 50, Transport 20 and Bills 5.5 are 66, 26 and
\* 7, which sum to 99
C16_RoundedDown ==
  /\ page.open
  /\ ~page.isLoading
  /\ getCategoryData(Shown).labels = <<"Food", "Transport", "Bills">>
  /\ getCategoryData(Shown).percentages = <<Num(6600), Num(2600), Num(700)>>

\* C16: Transport 20 and Bills -20 sum to 0, and the percentages are
\* Infinity and -Infinity
C16_DividedByZero ==
  /\ page.open
  /\ ~page.isLoading
  /\ getCategoryData(Shown).labels = <<"Transport", "Bills">>
  /\ getCategoryData(Shown).percentages = <<Infinity, NegInfinity>>

\* every entry of the sequence is 0
AllZero(data) == \A i \in DOMAIN data : data[i] = Num(0)

\* C17: with no expense (the list not yet loaded, or loaded and empty) and
\* the goals not yet loaded or none, every aggregate of the dashboard and of
\* the insights charts is 0 or empty and none is NaN or infinite: the month's
\* totals, the month-over-month change, the savings and the goals progress
\* are 0, there is no category and no top category, every month of the trends
\* and every weekday average is 0 and no weekday is highlighted.  The
\* insights charts give the same when the time filter leaves no expense.
C17_EmptyListAllZero ==
  /\ (page.open /\ page.expenses = <<>> /\ page.goals \in {Undefined, Array(<<>>)}) =>
       /\ Summary.currentMonthTotal = Num(0)
       /\ Summary.lastMonthTotal = Num(0)
       /\ Summary.spendingDifference = Num(0)
       /\ Summary.topCategory = ""
       /\ topCategoryText(Summary) = "No data"
       /\ Summary.topCategoryAmount = Num(0)
       /\ Summary.topCategoryPercentage = Num(0)
       /\ Summary.monthlySavings = Num(0)
       /\ Summary.goalsProgress = Num(0)
       /\ AllZero(Spending.monthlyData.data)
       /\ ~page.isLoading => Len(Spending.monthlyData.data) = 6
       /\ Spending.categoryData = [labels |-> <<>>, data |-> <<>>]
  /\ (page.open /\ Shown = <<>>) =>
       /\ Insights.categoryData =
            [labels |-> <<>>, data |-> <<>>, percentages |-> <<>>, total |-> Num(0)]
       /\ ~showsTopCategory(Insights.categoryData)
       /\ AllZero(Insights.monthlyData.data)
       /\ ~page.isLoading =>
            Len(Insights.monthlyData.data) = monthsToShow(page.timeFilter)
       /\ Insights.monthlyData.change = Num(0)
       /\ Insights.monthlyData.changePercentage = Num(0)
       /\ ~showsChange(Insights.monthlyData)
       /\ AllZero(Insights.weekdayData.data)
       /\ ~page.isLoading => Len(Insights.weekdayData.data) = 7
       /\ Insights.weekdayData.highestAvg = Num(0)
       /\ ~showsHighestDay(Insights.weekdayData)

\* C17 witness: the expenses are loaded and there is none, the goals are
\* loaded and there is none, and the 12 months of the year's trend are shown
C17_Witness ==
  /\ page.open
  /\ ~page.isLoading
  /\ page.expenses = <<>>
  /\ page.goals = Array(<<>>)
  /\ page.timeFilter = "1year"
  /\ Len(Insights.monthlyData.data) = 12
  /\ Summary.spendingDifference = Num(0)

\* the sum of the amounts of the expenses dated in the calendar month that is
\* back months before the month of the day
MonthTotal(list, day, back) ==
  LET d == NewDate(day.y, day.m - back, 1)
      Dated(e) == e.date.y = d.y /\ e.date.m = d.m
  IN SumAmounts(SelectSeq(list, Dated))

\* C18 as claimed: whenever the amounts dated in the calendar month before
\* today's sum to 0, the dashboard's spendingDifference and the insights
\* charts' change and changePercentage are 0.
C18_NoPreviousMonthNoChange ==
  (page.open /\ ~page.isLoading /\ MonthTotal(page.expenses, page.today, 1) = Num(0)) =>
    /\ Summary.spendingDifference = Num(0)
    /\ Insights.monthlyData.change = Num(0)
    /\ Insights.monthlyData.changePercentage = Num(0)

\* C18, the part that holds: the same in a browser whose zone is not behind
\* UTC.
C18_NoChangeAtUTC ==
  (page.tz = 0) => C18_NoPreviousMonthNoChange

\* C18: in a zone behind UTC on 31 March, the one expense, of 50 and dated
\* 1 March, is counted in February: the dashboard shows a fall of 100 %
C18_FirstOfMonthCountedBefore ==
  /\ page.open
  /\ ~page.isLoading
  /\ page.tz = -1
  /\ page.today = Day(2024, 2, 31)
  /\ Len(page.expenses) = 1
  /\ page.expenses[1].date = Day(2024, 2, 1)
  /\ MonthTotal(page.expenses, page.today, 1) = Num(0)
  /\ Summary.lastMonthTotal = Num(5000)
  /\ Summary.spendingDifference = Num(-10000)

\* round((cur - prev) / prev * 100) of the amounts dated in today's calendar
\* month and in the one before
ExpectedChange ==
  percentage(Minus(MonthTotal(page.expenses, page.today, 0),
                   MonthTotal(page.expenses, page.today, 1)),
             MonthTotal(page.expenses, page.today, 1))

\* the previous calendar month's amounts sum to more than 0
PreviousAbove0 ==
  page.open /\ ~page.isLoading /\ Gt(MonthTotal(page.expenses, page.today, 1), Num(0))

\* C19 as claimed: for every list, reference day and time filter, when the
\* previous calendar month's total prev is above 0 the month-over-month
\* percentage, of the dashboard (rounded as it is displayed) and of the
\* insights charts, is round((cur - prev) / prev * 100).
C19_MonthOverMonthPercentage ==
  PreviousAbove0 =>
    /\ MathRound(Summary.spendingDifference) = ExpectedChange
    /\ Insights.monthlyData.changePercentage = ExpectedChange

\* C19, the part that holds: in a zone not behind UTC the dashboard's
\* percentage is the claimed one, and so is that of the insights charts when
\* the filter shows two months or more.
C19_PercentageAtUTC ==
  (PreviousAbove0 /\ page.tz = 0) =>
    /\ MathRound(Summary.spendingDifference) = ExpectedChange
    /\ monthsToShow(page.timeFilter) >= 2 =>
         Insights.monthlyData.changePercentage = ExpectedChange

\* C19: in a zone behind UTC on 31 March, with 50 on 1 March, 30 on 10 March
\* and 20 on 10 February, the rise is 300 % and the dashboard computes a fall
\* of 40 / 70, shown as 57 %
C19_WrongMonths ==
  /\ PreviousAbove0
  /\ page.tz = -1
  /\ ExpectedChange = Num(30000)
  /\ MathRound(Summary.spendingDifference) = Num(-5700)

\* C19: at UTC with the filter of one month the insights charts give 0 where
\* the rise is 300 %
C19_OneMonthShown ==
  /\ PreviousAbove0
  /\ page.tz = 0
  /\ page.timeFilter = "1month"
  /\ ExpectedChange = Num(30000)
  /\ Insights.monthlyData.changePercentage = Num(0)

\* the categories of a list, and the sum of the amounts of one of them
CategoriesOf(list) == {list[i].category : i \in DOMAIN list}
CategorySum(list, c) ==
  LET Of(e) == e.category = c
  IN SumAmounts(SelectSeq(list, Of))

\* the breakdown of the list: each category once with the sum of its amounts,
\* in descending order, with the percentage round(sum / total * 100)
IsBreakdown(categoryData, list) ==
  /\ Len(categoryData.labels) = Cardinality(CategoriesOf(list))
  /\ {categoryData.labels[i] : i \in DOMAIN categoryData.labels} = CategoriesOf(list)
  /\ \A i \in DOMAIN categoryData.labels :
       /\ categoryData.data[i] = CategorySum(list, categoryData.labels[i])
       /\ categoryData.percentages[i] =
            MathRound(Times100(Div(CategorySum(list, categoryData.labels[i]),
                                   SumAmounts(list))))
       /\ \A j \in DOMAIN categoryData.labels :
            i < j => ~Gt(categoryData.data[j], categoryData.data[i])

\* the expenses dated in today's calendar month
ThisMonth ==
  LET Dated(e) == e.date.y = page.today.y /\ e.date.m = page.today.m
  IN SelectSeq(page.expenses, Dated)

\* the dashboard's top category is a category of this month's expenses, and
\* none of them has a greater sum
TopIsMaximal ==
  /\ Summary.topCategory \in CategoriesOf(ThisMonth)
  /\ Summary.topCategoryAmount = CategorySum(ThisMonth, Summary.topCategory)
  /\ \A c \in CategoriesOf(ThisMonth) :
       ~Gt(CategorySum(ThisMonth, c), Summary.topCategoryAmount)

\* C20 as claimed: the category breakdown of the insights charts lists each
\* category of the expenses shown once with the sum of its amounts, in
\* descending order of the sums, with the percentage round(sum / total * 100),
\* its first entry being the top category; and the top category of the
\* dashboard is a category of maximal sum among the expenses of today's
\* calendar month.
C20_BreakdownAndTop ==
  (page.open /\ ~page.isLoading) =>
    /\ IsBreakdown(getCategoryData(Shown), Shown)
    /\ ThisMonth # <<>> => TopIsMaximal

\* C20, the part that holds: the breakdown is as claimed for every list, and
\* the dashboard's top category is when the zone is not behind UTC and this
\* month's amounts are above 0.
C20_BreakdownAndTopAtUTC ==
  (page.open /\ ~page.isLoading) =>
    /\ IsBreakdown(getCategoryData(Shown), Shown)
    /\ (/\ ThisMonth # <<>>
        /\ page.tz = 0
        /\ \A i \in DOMAIN ThisMonth : Gt(Number(ThisMonth[i].amount), Num(0)))
       => TopIsMaximal

\* C20: the scenario of the specification at UTC, Food 50 and 30 and
\* Transport 20: the breakdown is Food 80 (80 %), Transport 20 (20 %), and the
\* dashboard's top category is Food
C20_Scenario ==
  /\ page.open
  /\ ~page.isLoading
  /\ page.tz = 0
  /\ getCategoryData(Shown) =
       [labels |-> <<"Food", "Transport">>, data |-> <<Num(8000), Num(2000)>>,
        percentages |-> <<Num(8000), Num(2000)>>, total |-> Num(10000)]
  /\ Len(ThisMonth) = 3
  /\ Summary.topCategory = "Food"
  /\ Summary.topCategoryPercentage = Num(8000)

\* C20: in a zone behind UTC on 31 March, Food 50 on 1 March and Transport 20
\* on 10 March: the dashboard's top category is Transport
C20_TopOfWrongMonth ==
  /\ page.open
  /\ ~page.isLoading
  /\ page.tz = -1
  /\ Len(ThisMonth) = 2
  /\ CategorySum(ThisMonth, "Food") = Num(5000)
  /\ CategorySum(ThisMonth, "Transport") = Num(2000)
  /\ Summary.topCategory = "Transport"

\* C20: the one expense of this month is Bills -20: the dashboard has no top
\* category
C20_NoTopBelow0 ==
  /\ page.open
  /\ ~page.isLoading
  /\ page.tz = 0
  /\ Len(ThisMonth) = 1
  /\ CategorySum(ThisMonth, "Bills") = Num(-2000)
  /\ Summary.topCategory = ""

\* the trend of months pairs: the k-th pair is labelled with the calendar
\* month that is months - k before today's, and its total is the sum of the
\* amounts of the expenses of the page dated in that month
IsTrend(monthlyData, months) ==
  /\ Len(monthlyData.labels) = months
  /\ Len(monthlyData.data) = months
  /\ \A k \in 1..months :
       LET d == NewDate(page.today.y, page.today.m - (months - k), 1)
       IN /\ monthlyData.labels[k] = [m |-> d.m, y |-> d.y]
          /\ monthlyData.data[k] = MonthTotal(page.expenses, page.today, months - k)

\* C21 as claimed: for every reference day and every time filter, the trend
\* of the insights charts is the sequence of the N = 1, 3, 6, 12 or 24
\* trailing calendar months ending with today's, oldest first, each with the
\* sum of the amounts of all the expenses dated in it; and so is the trend of
\* the dashboard's spending chart, with N = 6.
C21_TrendOfTrailingMonths ==
  (page.open /\ ~page.isLoading) =>
    /\ IsTrend(Insights.monthlyData, monthsToShow(page.timeFilter))
    /\ IsTrend(Spending.monthlyData, 6)

\* C21, the part that holds: in a zone not behind UTC the dashboard's trend is
\* as claimed, and that of the insights charts is when today is no later
\* than the 28th or every expense is shown.
C21_TrendAtUTC ==
  (page.open /\ ~page.isLoading /\ page.tz = 0) =>
    /\ IsTrend(Spending.monthlyData, 6)
    /\ (page.today.d <= 28 \/ page.timeFilter = "all") =>
         IsTrend(Insights.monthlyData, monthsToShow(page.timeFilter))

\* C21: on 31 March at UTC with the filter of one month, the expense of 50
\* dated 1 March is left out of March: the filter's day, 31 February, is
\* 2 March
C21_FirstOfMonthLeftOut ==
  /\ page.open
  /\ ~page.isLoading
  /\ page.tz = 0
  /\ page.today = Day(2024, 2, 31)
  /\ page.timeFilter = "1month"
  /\ Len(page.expenses) = 1
  /\ page.expenses[1].date = Day(2024, 2, 1)
  /\ MonthTotal(page.expenses, page.today, 0) = Num(5000)
  /\ Insights.monthlyData.data = <<Num(0)>>

\* C21: in a zone behind UTC the dashboard's trend has the expense of 1 March
\* in February
C21_TrendOfWrongMonth ==
  /\ page.open
  /\ ~page.isLoading
  /\ page.tz = -1
  /\ page.today = Day(2024, 2, 31)
  /\ Len(page.expenses) = 1
  /\ page.expenses[1].date = Day(2024, 2, 1)
  /\ Spending.monthlyData.data[5] = Num(5000)
  /\ Spending.monthlyData.data[6] = Num(0)

\* the average of the amounts of the expenses of the list dated on weekday w,
\* 0 when there is none
WeekdayAverage(list, w) ==
  LET On(e) == getDay(e.date) = w
      on == SelectSeq(list, On)
  IN IF Len(on) = 0 THEN Num(0) ELSE Div(SumAmounts(on), Num(100 * Len(on)))

\* the weekday data are the averages of the expenses shown, and the weekday
\* named as highest, when one is named, is the earliest of those with the
\* greatest average
IsWeekdayData(weekdayData) ==
  /\ \A w \in 0..6 : weekdayData.data[w + 1] = WeekdayAverage(Shown, w)
  /\ showsHighestDay(weekdayData) =>
       \E w \in 0..6 :
         /\ weekdayData.highestDay = WeekdayNames[w + 1]
         /\ weekdayData.highestAvg = WeekdayAverage(Shown, w)
         /\ \A v \in 0..6 : ~Gt(WeekdayAverage(Shown, v), WeekdayAverage(Shown, w))
         /\ \A v \in 0..(w - 1) : Gt(WeekdayAverage(Shown, w), WeekdayAverage(Shown, v))

\* C22 as claimed: for each weekday, Sunday to Saturday, the average of the
\* insights charts is the sum of the amounts of the expenses on that weekday
\* divided by their number, 0 when there is none; the weekday named as
\* highest has an average no other weekday exceeds, and of weekdays with the
\* same greatest average the earliest is named.
C22_WeekdayAverages ==
  (page.open /\ ~page.isLoading) => IsWeekdayData(Insights.weekdayData)

\* C22, the part that holds: the same in a browser whose zone is not behind
\* UTC.
C22_WeekdayAveragesAtUTC ==
  (page.open /\ ~page.isLoading /\ page.tz = 0) => IsWeekdayData(Insights.weekdayData)

\* C22: at UTC, 30 on Sunday 10 March and 30 on Wednesday 20 December: the
\* averages tie and Sunday is named
C22_TieNamesEarliest ==
  /\ page.open
  /\ ~page.isLoading
  /\ page.tz = 0
  /\ Insights.weekdayData.data[1] = Num(3000)
  /\ Insights.weekdayData.data[4] = Num(3000)
  /\ Insights.weekdayData.highestDay = "Sunday"
  /\ showsHighestDay(Insights.weekdayData)

\* C22: behind UTC the one expense, dated Sunday 10 March, is averaged under
\* Saturday, and Saturday is named as the highest weekday
C22_DayBefore ==
  /\ page.open
  /\ ~page.isLoading
  /\ page.tz = -1
  /\ Len(Shown) = 1
  /\ Shown[1].date = Day(2024, 2, 10)
  /\ getDay(Shown[1].date) = 0
  /\ Insights.weekdayData.data[1] = Num(0)
  /\ Insights.weekdayData.data[7] # Num(0)
  /\ Insights.weekdayData.highestDay = "Saturday"

\* p / q rounded to the nearest integer, a half going up
RoundHalfUp(p, q) ==
  IF q > 0 THEN (2 * p + q) \div (2 * q) ELSE (-(2 * p) - q) \div (-(2 * q))

\* the goals of the page, once fetched, and the sums of their amounts in
\* hundredths
GoalItems == page.goals.items
SumOfGoals(field) ==
  LET F[k \in 0..Len(GoalItems)] ==
        IF k = 0 THEN 0 ELSE F[k - 1] + NumericValue(GoalItems[k][field])
  IN F[Len(GoalItems)]

\* each goal's percentage is round(currentAmount / targetAmount * 100)
EachGoalRounded ==
  \A i \in DOMAIN GoalItems :
    NumericValue(GoalItems[i].targetAmount) # 0 =>
      GoalCardProgress(GoalItems[i]) =
        Num(100 * RoundHalfUp(100 * NumericValue(GoalItems[i].currentAmount),
                              NumericValue(GoalItems[i].targetAmount)))

\* the aggregate is round(sum of currentAmount / sum of targetAmount * 100),
\* and 0 when the sum of targetAmount is 0
AggregateRounded ==
  Summary.goalsProgress =
    IF SumOfGoals("targetAmount") = 0 THEN Num(0)
    ELSE Num(100 * RoundHalfUp(100 * SumOfGoals("currentAmount"),
                               SumOfGoals("targetAmount")))

\* C23 as claimed: each goal's percentage is round(currentAmount /
\* targetAmount * 100), a half going up, and the dashboard's goals progress is
\* round(sum of currentAmount / sum of targetAmount * 100) over the goals
\* fetched, 0 when the targets sum to 0.
C23_GoalsProgress ==
  (page.open /\ page.goals # Undefined) => (EachGoalRounded /\ AggregateRounded)

\* C23, the part that holds: the same when the targets sum to 0 or more.
C23_ProgressOfTargetsAbove0 ==
  (page.open /\ page.goals # Undefined /\ SumOfGoals("targetAmount") >= 0)
    => (EachGoalRounded /\ AggregateRounded)

\* C23: 1 of 8 is 12.5 %, shown as 13 % on the card and on the dashboard
C23_HalfGoesUp ==
  /\ page.open
  /\ page.goals = Array(<<PageGoal(<<"1">>, <<"8">>)>>)
  /\ GoalCardProgress(GoalItems[1]) = Num(1300)
  /\ Summary.goalsProgress = Num(1300)

\* C23: the one goal has 5 of a target of -10: the card shows -50 % and the
\* dashboard's goals progress is 0
C23_TargetBelow0 ==
  /\ page.open
  /\ page.goals = Array(<<PageGoal(<<"5">>, <<"-", "1", "0">>)>>)
  /\ GoalCardProgress(GoalItems[1]) = Num(-5000)
  /\ Summary.goalsProgress = Num(0)

\* C23: the one goal has 5 of a target of 0: the card's percentage is
\* Infinity
C23_TargetOf0 ==
  /\ page.open
  /\ page.goals = Array(<<PageGoal(<<"5">>, <<"0">>)>>)
  /\ GoalCardProgress(GoalItems[1]) = Infinity
  /\ Summary.goalsProgress = Num(0)

\* the decimal text of a value supplied in a body: the text itself, or the
\* text of the JSON number
SuppliedText(v) == IF typeof(v) = "string" THEN v.s ELSE String(v)

\* the request of slot s is answered with the record it wrote
Wrote(s, route, status) ==
  reqs[s].pc = "done" /\ reqs[s].route = route /\ reqs[s].status = status

\* the amounts that a POST or PUT of a goal, or a PUT of an expense, wrote
\* are the texts supplied
GoalAndPutTextsExact ==
  \A s \in Slots :
    LET r == reqs[s]
    IN /\ Wrote(s, "POST /api/goals", 201) =>
            \A g \in r.out :
              /\ g.targetAmount = SuppliedText(r.body.targetAmount)
              /\ Truthy(r.body.currentAmount) =>
                   g.currentAmount = SuppliedText(r.body.currentAmount)
       /\ Wrote(s, "PUT /api/goals/:id", 200) =>
            \A g \in r.out :
              /\ r.body.targetAmount # Undefined =>
                   g.targetAmount = SuppliedText(r.body.targetAmount)
              /\ r.body.currentAmount # Undefined =>
                   g.currentAmount = SuppliedText(r.body.currentAmount)
       /\ Wrote(s, "PUT /api/expenses/:id", 200) =>
            \A e \in r.out :
              r.body.amount # Undefined => e.amount = SuppliedText(r.body.amount)

\* C24 as claimed: every amount that a create or update writes to the store
\* is the exact decimal text of the value supplied, and no amount is turned
\* into a number on its way to the store, neither by a handler nor by the
\* add-funds form, whose PUT would then carry the new amount as a text.
C24_ExactDecimalText ==
  /\ GoalAndPutTextsExact
  /\ \A s \in Slots :
       /\ Wrote(s, "POST /api/expenses", 201) =>
            \A e \in reqs[s].out : e.amount = SuppliedText(reqs[s].body.amount)
       /\ reqs[s].from # NoBody => typeof(reqs[s].body.currentAmount) = "string"

\* C24: the amount "5.50" of a POST of an expense is stored as "5.5"
C24_TrailingZeroLost ==
  \E s \in Slots :
    /\ Wrote(s, "POST /api/expenses", 201)
    /\ reqs[s].body.amount = Str(<<"5", ".", "5", "0">>)
    /\ \E e \in expenses : e \in reqs[s].out /\ e.amount = <<"5", ".", "5">>

\* C24: the PUT of the add-funds form, applied, carried the sum as a number
C24_FundsSentAsNumber ==
  \E s \in Slots :
    /\ Wrote(s, "PUT /api/goals/:id", 200)
    /\ reqs[s].from # NoBody
    /\ typeof(reqs[s].body.currentAmount) = "number"
    /\ \E g \in goals : g \in reqs[s].out

\* the write of the PUT that the add-funds form sent is applied in this step
\* and answered 200
FundsAdded(s) ==
  /\ reqs[s].pc = "write"
  /\ reqs[s].from # NoBody
  /\ reqs'[s].pc = "done"
  /\ reqs'[s].status = 200

\* C25 as claimed: no funds are lost.  Every add-funds action that succeeds
\* raises the stored currentAmount of its goal by its amount, so two of them
\* with amounts a and b on one goal, also when made from one fetched list,
\* leave the initial currentAmount + a + b.
C25_NoFundsLost ==
  [][\A s \in Slots :
       FundsAdded(s) =>
         \A g \in goals : \A h \in goals' :
           (g.id = reqs[s].id /\ h.id = reqs[s].id) =>
             NumericValue(h.currentAmount) =
               NumericValue(g.currentAmount) + NumericValue(reqs[s].from.amount)]_vars

\* C25: two add-funds actions of 5, both made from a card that showed 0 and
\* both answered 200: the goal holds 5, not 10
C25_BothAddedOneCounted ==
  /\ \A s \in Slots :
       /\ Wrote(s, "PUT /api/goals/:id", 200)
       /\ reqs[s].from # NoBody
       /\ reqs[s].from.goal.currentAmount = <<"0">>
       /\ reqs[s].from.amount = <<"5">>
       /\ reqs[s].id = 1
  /\ Cardinality(Slots) = 2
  /\ \E g \in goals : g.id = 1 /\ g.currentAmount = <<"5">>

\* C26 as claimed: right after an add-funds write answered 200, the goal it
\* wrote to has the status completed whenever its stored currentAmount is not
\* below its stored targetAmount, also when the goal was edited or funded
\* between the rendering of the card and the submission of the form.
C26_CompletedAfterFunds ==
  [][\A s \in Slots :
       FundsAdded(s) =>
         \A h \in goals' :
           (h.id = reqs[s].id
              /\ NumericValue(h.currentAmount) >= NumericValue(h.targetAmount))
           => h.status = "completed"]_vars

\* C26: the card showed 0 of 10; the target was edited to 5; 5 were added
\* from the card and the PUT was answered 200: the goal has 5 of 5 and is in
\* progress
C26_ReachedNotCompleted ==
  \E s \in Slots :
    /\ Wrote(s, "PUT /api/goals/:id", 200)
    /\ reqs[s].from # NoBody
    /\ reqs[s].from.goal.targetAmount = Ten
    /\ reqs[s].from.amount = <<"5">>
    /\ \E g \in goals :
         /\ g \in reqs[s].out
         /\ g.currentAmount = <<"5">>
         /\ g.targetAmount = <<"5">>
         /\ g.status = "in_progress"

\* the step keeps the owner of every stored record
OwnersKept ==
  /\ \A e \in expenses : \A f \in expenses' : f.id = e.id => f.userId = e.userId
  /\ \A g \in goals : \A h \in goals' : h.id = g.id => h.userId = g.userId

\* C27 as claimed: no request changes the owner of a stored record, so every
\* record stays owned by the user who created it, whatever fields the body
\* of a PUT contains.
C27_OwnerNeverChanges ==
  [][OwnersKept]_vars

\* C27, the part that holds: a step that is not the write of a PUT whose
\* body carries a userId keeps the owner of every record
C27_OwnerKeptWithoutUserId ==
  [][(\A s \in Slots :
        (reqs[s].pc = "write" /\ reqs'[s] # reqs[s]
           /\ reqs[s].route \in {"PUT /api/expenses/:id", "PUT /api/goals/:id"})
        => reqs[s].data.userId = Undefined)
     => OwnersKept]_vars

\* C27: user 1 sent a PUT with userId 2 in the body for a record of theirs,
\* was answered 200, and the record is stored as a record of user 2
C27_OwnerChanged ==
  \E s \in Slots :
    /\ reqs[s].pc = "done"
    /\ reqs[s].route \in {"PUT /api/expenses/:id", "PUT /api/goals/:id"}
    /\ reqs[s].status = 200
    /\ reqs[s].session.userId = 1
    /\ \E row \in reqs[s].out :
         row.userId = 2 /\ row \in expenses \cup goals

\* the request of slot s is answered 201 in this step
Created(s) ==
  /\ reqs'[s] # reqs[s]
  /\ reqs'[s].pc = "done"
  /\ reqs'[s].route \in {"POST /api/expenses", "POST /api/goals"}
  /\ reqs'[s].status = 201

\* C28: a POST /api/expenses or POST /api/goals answered 201 stores one
\* record, answers with it, and its owner is the user of the session, also
\* when the body carries the userId of another user.
C28_CreatedForSessionUser ==
  [][\A s \in Slots :
       Created(s) =>
         LET new == IF reqs'[s].route = "POST /api/expenses"
                    THEN expenses' \ expenses ELSE goals' \ goals
         IN /\ new # {}
            /\ new = reqs'[s].out
            /\ \A row \in new : row.userId = reqs'[s].session.userId]_vars

\* C28: user 1 posted a body with userId 2, was answered 201, and the record
\* is stored as a record of user 1
C28_Witness ==
  \E s \in Slots :
    /\ reqs[s].pc = "done"
    /\ reqs[s].route \in {"POST /api/expenses", "POST /api/goals"}
    /\ reqs[s].status = 201
    /\ reqs[s].session.userId = 1
    /\ reqs[s].body.userId = Num(2)
    /\ \E row \in reqs[s].out :
         row.userId = 1 /\ row \in expenses \cup goals

\* slot s serves a PUT /api/user/profile in this step
ProfilePut(s) ==
  /\ reqs'[s] # reqs[s]
  /\ reqs'[s].pc = "done"
  /\ reqs'[s].route = "PUT /api/user/profile"

\* C29 as claimed: a PUT /api/user/profile changes at most the profile
\* fields of the row of the session's user: the id and the hashed password of
\* that row, the rows of the other users, the expenses and the goals are as
\* before, whatever the body contains.
C29_ProfileOnly ==
  [][\A s \in Slots :
       ProfilePut(s) =>
         /\ expenses' = expenses
         /\ goals' = goals
         /\ {u.id : u \in users'} = {u.id : u \in users}
         /\ \A u \in users : \A v \in users' :
              v.id = u.id =>
                /\ v.password = u.password
                /\ v.id # reqs'[s].session.userId => v = u]_vars

\* C29, the part that holds: the rows of the other users, the ids, the
\* expenses and the goals are as before, and so is the password when the
\* body carries none
C29_OthersKept ==
  [][\A s \in Slots :
       ProfilePut(s) =>
         /\ expenses' = expenses
         /\ goals' = goals
         /\ {u.id : u \in users'} = {u.id : u \in users}
         /\ \A u \in users : \A v \in users' :
              v.id = u.id =>
                /\ reqs'[s].body.password = Undefined => v.password = u.password
                /\ v.id # reqs'[s].session.userId => v = u]_vars

\* C29: a PUT /api/user/profile with a password in its body was answered 200
\* and the row of the session's user holds that text in place of the hash
C29_PasswordReplaced ==
  \E s \in Slots :
    /\ reqs[s].pc = "done"
    /\ reqs[s].route = "PUT /api/user/profile"
    /\ reqs[s].status = 200
    /\ \E u \in users :
         /\ u.id = reqs[s].session.userId
         /\ u.password = "letmein"
         /\ u \in reqs[s].out

\* the body is what the add-goal dialog sends for fields that it accepts
DialogSends(body) ==
  \E targetAmount \in TargetTexts \cup {Ten}, currentAmount \in {<<>>, <<"0">>} :
    /\ goalFormSchema(targetAmount, currentAmount)
    /\ body = goalPayload("Car", targetAmount, currentAmount, "in_progress")

\* C30 as claimed: a POST /api/goals with what the add-goal dialog sends for
\* fields it accepts, from a logged-in user and with no failure of the
\* storage, is answered 201 with the goal stored: the target amount
\* submitted, the current amount 0, the status in_progress.
C30_DialogGoalCreated ==
  \A s \in Slots :
    LET r == reqs[s]
    IN (r.pc = "done" /\ r.route = "POST /api/goals" /\ LoggedIn(r)
          /\ ~r.failed /\ DialogSends(r.body))
       => /\ r.status = 201
          /\ \E g \in r.out :
               /\ NumericValue(g.targetAmount) = r.body.targetAmount.n
               /\ NumericValue(g.currentAmount) = 0
               /\ g.status = "in_progress"

\* C30, the part that holds: the same fields sent as the texts typed, the
\* current amount and the status left out, are answered 201 and stored with
\* that target amount, the current amount "0" and the status in_progress
C30_TextsCreated ==
  \A s \in Slots :
    LET r == reqs[s]
    IN (r.pc = "done" /\ r.route = "POST /api/goals" /\ LoggedIn(r)
          /\ ~r.failed /\ r.body.name = Word("Car")
          /\ r.body.targetAmount = Str(Ten)
          /\ r.body.currentAmount = Undefined /\ r.body.status = Undefined)
       => /\ r.status = 201
          /\ \E g \in r.out :
               /\ g.targetAmount = Ten
               /\ g.currentAmount = <<"0">>
               /\ g.status = "in_progress"

\* C30: the dialog accepted the target amount 10 and the current amount 0,
\* sent them as numbers, and the POST was answered 400 for both amounts
C30_DialogGoalRefused ==
  \E s \in Slots :
    /\ reqs[s].pc = "done"
    /\ reqs[s].route = "POST /api/goals"
    /\ goalFormSchema(Ten, <<"0">>)
    /\ reqs[s].body = goalPayload("Car", Ten, <<"0">>, "in_progress")
    /\ reqs[s].status = 400
    /\ reqs[s].errors = {"targetAmount", "currentAmount"}
    /\ goals = {}

====
